---- MODULE Spec2Model ----
(***************************************************************************)
(* A model of packages_inspector: the resolver chain of mapping.py, the    *)
(* reconciliation of _inspect, the decision recorder and the command       *)
(* packages_inspector that drives them over the context file and the       *)
(* decision store.                                                         *)
(*                                                                         *)
(* A name (module or package) is a sequence of one-character strings, so   *)
(* that lower(), replace(), partition() and the text distances are         *)
(* computed and not assumed.                                               *)
(***************************************************************************)
EXTENDS Integers, Sequences, FiniteSets, TLC

(***************************************************************************)
(* Names                                                                   *)
(***************************************************************************)

\* mapping.py:14  MODULE_IGNORED = "module-ignored"
MODULE_IGNORED == <<"m", "o", "d", "u", "l", "e", "-", "i", "g", "n", "o", "r", "e", "d">>

\* The empty string: falsy in Python, so `if package := ...` rejects it.
EmptyName == <<>>

\* None where a name is expected: an entry, a key or a value of a context
\* file that was cut before the name was written
NoneName == <<"None">>

\* Python truthiness of a str or of None (used by the walrus tests of
\* mapping.py).
Truthy(name) == Len(name) > 0 /\ name # NoneName

Min(a, b) == IF a <= b THEN a ELSE b

Max(a, b) == IF a >= b THEN a ELSE b

\* str.lower() on the characters the model uses.
LowerChar(c) ==
    CASE c = "A" -> "a"
      [] c = "B" -> "b"
      [] c = "C" -> "c"
      [] OTHER -> c

Lower(name) == [i \in 1..Len(name) |-> LowerChar(name[i])]

\* str.replace("-", "_")
ReplaceDash(name) == [i \in 1..Len(name) |-> IF name[i] = "-" THEN "_" ELSE name[i]]

\* x.partition(".")[0]: the text before the first dot (all of x without one)
FirstSegment(name) ==
    LET dots == {i \in 1..Len(name) : name[i] = "."}
    IN  IF dots = {} THEN name
        ELSE LET first == CHOOSE i \in dots : \A j \in dots : i <= j
             IN  SubSeq(name, 1, first - 1)

(***************************************************************************)
(* Text distances (textdistance, as mapping.py uses them)                  *)
(***************************************************************************)

\* s[i..i+n-1] = t[j..j+n-1]
BlockMatch(s, i, t, j, n) == \A k \in 0..(n - 1) : s[i + k] = t[j + k]

\* The blocks common to s and t, as <<start in s, start in t, size>>, size >= 1.
CommonBlocks(s, t) ==
    {b \in (1..Len(s)) \X (1..Len(t)) \X (1..Min(Len(s), Len(t))) :
        /\ b[1] + b[3] - 1 <= Len(s)
        /\ b[2] + b[3] - 1 <= Len(t)
        /\ BlockMatch(s, b[1], t, b[2], b[3])}

\* difflib.SequenceMatcher.find_longest_match: a longest block, the one that
\* starts earliest in s and, among those, earliest in t; <<1, 1, 0>> when none.
LongestMatch(s, t) ==
    LET blocks == CommonBlocks(s, t)
    IN  IF blocks = {} THEN <<1, 1, 0>>
        ELSE CHOOSE b \in blocks :
                \A c \in blocks :
                    \/ b[3] > c[3]
                    \/ b[3] = c[3] /\ b[1] < c[1]
                    \/ b[3] = c[3] /\ b[1] = c[1] /\ b[2] <= c[2]

\* textdistance.lcsstr(s, t): the longest common substring
LCSStr(s, t) ==
    LET m == LongestMatch(s, t)
    IN  SubSeq(s, m[1], m[1] + m[3] - 1)

\* len(textdistance.lcsseq(s, t)): the longest common subsequence's length
RECURSIVE LCSSeqLen(_, _)
LCSSeqLen(s, t) ==
    IF Len(s) = 0 \/ Len(t) = 0 THEN 0
    ELSE IF s[Len(s)] = t[Len(t)]
         THEN 1 + LCSSeqLen(SubSeq(s, 1, Len(s) - 1), SubSeq(t, 1, Len(t) - 1))
         ELSE Max(LCSSeqLen(SubSeq(s, 1, Len(s) - 1), t),
                  LCSSeqLen(s, SubSeq(t, 1, Len(t) - 1)))

\* str.find(sub): the first index (from 1) at which sub occurs in s
Find(s, sub) ==
    CHOOSE i \in 1..(Len(s) - Len(sub) + 1) :
        /\ BlockMatch(s, i, sub, 1, Len(sub))
        /\ \A j \in 1..(i - 1) : ~BlockMatch(s, j, sub, 1, Len(sub))

\* RatcliffObershelp._find: the matching characters, found around the longest
\* common substring and then on both of its sides
RECURSIVE RatcliffMatches(_, _)
RatcliffMatches(s, t) ==
    LET sub == LCSStr(s, t)
        n   == Len(sub)
    IN  IF Len(s) = 0 \/ Len(t) = 0 \/ n = 0 THEN 0
        ELSE LET fs == Find(s, sub)
                 ft == Find(t, sub)
             IN  RatcliffMatches(SubSeq(s, 1, fs - 1), SubSeq(t, 1, ft - 1))
                 + n
                 + RatcliffMatches(SubSeq(s, fs + n, Len(s)), SubSeq(t, ft + n, Len(t)))

\* How often character c occurs in s (collections.Counter)
CountChar(s, c) == Cardinality({i \in 1..Len(s) : s[i] = c})

\* The size of the intersection of the two character counters (Cosine)
CounterIntersection(s, t) ==
    LET chars == {s[i] : i \in 1..Len(s)}
        RECURSIVE Sum(_)
        Sum(cs) == IF cs = {} THEN 0
                   ELSE LET c == CHOOSE x \in cs : TRUE
                        IN  Min(CountChar(s, c), CountChar(t, c)) + Sum(cs \ {c})
    IN  Sum(chars)

\* textdistance.hamming.distance(s, t): the positions at which s and t differ,
\* the shorter one padded (zip_longest)
HammingDistance(s, t) ==
    Cardinality({i \in 1..Max(Len(s), Len(t)) :
                    \/ i > Len(s)
                    \/ i > Len(t)
                    \/ s[i] # t[i]})

\* The four algorithms of _find_package_using_requirements
Algorithms == {"lcsstr", "lcsseq", "ratcliff_obershelp", "cosine"}

(***************************************************************************)
(* A distance is kept as a fraction <<numerator, denominator>> so that the *)
(* similarity-based measures (values in 0..1) compare exactly.  Cosine is  *)
(* 1 - i / sqrt(|s| * |t|): it is kept by its square, which orders the     *)
(* same way.                                                               *)
(***************************************************************************)

\* algorithm.distance(s, t) <= threshold: the comparison of line 80 if it
\* were not strict
DistanceAtMost(alg, s, t, threshold) ==
    CASE alg = "lcsstr" -> Max(Len(s), Len(t)) - Len(LCSStr(s, t)) <= threshold
      [] alg = "lcsseq" -> Max(Len(s), Len(t)) - LCSSeqLen(s, t) <= threshold
      [] alg = "ratcliff_obershelp" ->
            IF s = t THEN 0 <= threshold
            ELSE IF Len(s) = 0 \/ Len(t) = 0 THEN 1 <= threshold
            ELSE (Len(s) + Len(t)) - 2 * RatcliffMatches(s, t)
                    <= threshold * (Len(s) + Len(t))
      [] alg = "cosine" ->
            IF s = t THEN 0 <= threshold ELSE 1 <= threshold

\* algorithm.distance(s, t) < threshold
DistanceBelow(alg, s, t, threshold) ==
    CASE alg = "lcsstr" -> Max(Len(s), Len(t)) - Len(LCSStr(s, t)) < threshold
      [] alg = "lcsseq" -> Max(Len(s), Len(t)) - LCSSeqLen(s, t) < threshold
      \* maximum - similarity with maximum = 1 and similarity in 0..1:
      \* below the threshold iff 1 - similarity < threshold
      [] alg = "ratcliff_obershelp" ->
            IF s = t THEN 0 < threshold
            ELSE IF Len(s) = 0 \/ Len(t) = 0 THEN 1 < threshold
            ELSE (Len(s) + Len(t)) - 2 * RatcliffMatches(s, t)
                    < threshold * (Len(s) + Len(t))
      \* 1 - similarity with similarity = i / sqrt(|s| * |t|) in 0..1: for an
      \* integer threshold, below it iff threshold >= 2, or threshold = 1 and
      \* the similarity is not 0
      [] alg = "cosine" ->
            IF s = t THEN 0 < threshold
            ELSE IF Len(s) = 0 \/ Len(t) = 0 THEN 1 < threshold
            ELSE threshold >= 2
                 \/ (threshold = 1 /\ CounterIntersection(s, t) > 0)

\* algorithm.normalized_distance(s, t) <= algorithm.normalized_distance(u, t)
\* (the key of the sort of line 77, compared)
NormalizedLeq(alg, s, u, t) ==
    LET \* similarity as a fraction <<n, d>>; for cosine, its square
        sim(x) ==
            CASE alg = "lcsstr" ->
                    IF Max(Len(x), Len(t)) = 0 THEN <<1, 1>>
                    ELSE <<Len(LCSStr(x, t)), Max(Len(x), Len(t))>>
              [] alg = "lcsseq" ->
                    IF Max(Len(x), Len(t)) = 0 THEN <<1, 1>>
                    ELSE <<LCSSeqLen(x, t), Max(Len(x), Len(t))>>
              [] alg = "ratcliff_obershelp" ->
                    IF x = t THEN <<1, 1>>
                    ELSE IF Len(x) = 0 \/ Len(t) = 0 THEN <<0, 1>>
                    ELSE <<2 * RatcliffMatches(x, t), Len(x) + Len(t)>>
              [] alg = "cosine" ->
                    IF x = t THEN <<1, 1>>
                    ELSE IF Len(x) = 0 \/ Len(t) = 0 THEN <<0, 1>>
                    ELSE <<CounterIntersection(x, t) * CounterIntersection(x, t),
                           Len(x) * Len(t)>>
    IN  \* distance(s) <= distance(u)  iff  similarity(s) >= similarity(u)
        sim(s)[1] * sim(u)[2] >= sim(u)[1] * sim(s)[2]

\* matches[0] of line 77-78: a package of the requirements at the least
\* normalized distance.  sorted() is stable over the iteration of a set, whose
\* order is not defined: any of the closest packages can come first.
ClosestPackages(alg, packages, module) ==
    {p \in packages : \A q \in packages : NormalizedLeq(alg, p, q, module)}

\* matches[0] of line 96-97: a search result at the least Hamming distance
ClosestByHamming(packages, module) ==
    {p \in packages :
        \A q \in packages : HammingDistance(p, module) <= HammingDistance(q, module)}

(***************************************************************************)
(* Dictionaries (Python dict) are functions from names                     *)
(***************************************************************************)

EmptyDict == [k \in {} |-> EmptyName]

\* {**a, **b}
Merge(a, b) ==
    [k \in (DOMAIN a) \cup (DOMAIN b) |-> IF k \in DOMAIN b THEN b[k] ELSE a[k]]

\* d[key] = value
Put(d, key, value) ==
    [k \in (DOMAIN d) \cup {key} |-> IF k = key THEN value ELSE d[k]]

\* set(d.values())
Values(d) == {d[k] : k \in DOMAIN d}

\* line 165 without its filter: the mapping with its ignored entries kept
WithIgnored(d) == d

\* {k: v for k, v in d.items() if v != MODULE_IGNORED}
WithoutIgnored(d) == [k \in {x \in DOMAIN d : d[x] # MODULE_IGNORED} |-> d[k]]

\* The orders in which a set can be iterated
Orders(S) ==
    {order \in [1..Cardinality(S) -> S] :
        \A i, j \in 1..Cardinality(S) : order[i] = order[j] => i = j}

(***************************************************************************)
(* The universe of the model: the names the scanner, the manifest, the     *)
(* command line, the operator and the index can supply.                    *)
(***************************************************************************)

m_ab == <<"a", "b">>

m_a_b == <<"a", "_", "b">>

\* an extra module given with a dotted path
m_ab_dot_c == <<"a", "b", ".", "c">>

p_A_B == <<"A", "-", "B">>

p_b == <<"b">>

p_ba == <<"b", "a">>

\* What the scanner can discover
Modules == {m_ab, m_a_b}

\* The retries of the chain the model follows (the loop of best_package_choice
\* has no bound of its own)
MaxPasses == 2

(***************************************************************************)
(* State                                                                   *)
(***************************************************************************)

VARIABLES
    context_file,       \* .packages-inspector.yaml: [exists, torn, content]
    records_file,       \* .mappings, the decision store: [exists, torn, records]
    requirements_file,  \* requirements.txt: [lines, newline]
    pc,                 \* where the command (or the caller of _inspect) is
    args,               \* the arguments of the run
    context,            \* the context dict given to _inspect
    recorder,           \* the MappingRecorder: [kind, records]
    module_to_package_mapping,      \* the explicit mapping given to _inspect
    todo,               \* the modules the current comprehension has still to map
    required_packages_mapping,      \* _inspect line 131
    conflicting_packages_mapping,   \* _inspect line 143
    module,             \* the module best_package_choice is called with
    strategy,           \* the strategy best_package_choice is at
    algorithms,         \* the algorithms line 71 has still to iterate over
    passes,             \* how often the loop of line 132 has started again
    exists_cache,       \* the lru_cache of _package_exists: the results it holds
    cache_order,        \* the names it holds, the least recently used first
    queries,            \* how often the index was asked about a name in this process
    outcome,            \* how the last best_package_choice ended
    hook_log,           \* the kinds of answer interaction_hook gave in that call
    results,            \* what _inspect returned
    exit,               \* how the last run ended
    before              \* what a run starts from: the decision store's records, and the
                        \* results of the call that a repeated call follows

vars == <<context_file, records_file, requirements_file, pc, args, context, recorder,
          module_to_package_mapping, todo, required_packages_mapping,
          conflicting_packages_mapping, module, strategy, algorithms, passes,
          exists_cache, cache_order, queries, outcome, hook_log, results, exit,
          before>>

files == <<context_file, records_file, requirements_file>>

frame == <<module, strategy, algorithms, passes, outcome, hook_log>>

(***************************************************************************)
(* The context                                                             *)
(***************************************************************************)

\* context.get(key, default) on {}: what _inspect reads of an absent context
EmptyContext ==
    [mapping |-> EmptyDict, ignored_modules |-> {}, extra_modules |-> {},
     extra_packages |-> {}]

\* What yaml.load gives that is no dict: None for a file of 0 bytes, a str
\* for a file that ends inside its first key; context.get of line 315 raises
\* AttributeError on both
None == [kind |-> "None"]

Str == [kind |-> "str"]

\* A dict in which the value of a key is None or a str, the file ending
\* before the first entry of that key is whole: set(..) of lines 110, 114 and
\* 127 or the ** of line 315 raises TypeError on it
Unusable == [kind |-> "Unusable"]

\* What yaml.load (line 85) raises on a file that ends in a key that is not
\* the first one, and on a file that ends between the brackets of an empty
\* list or dict
ScannerError == [kind |-> "ScannerError"]

ParserError == [kind |-> "ParserError"]

\* The code points of the characters the model uses
CodePoint(c) ==
    CASE c = "-" -> 45
      [] c = "." -> 46
      [] c = "A" -> 65
      [] c = "B" -> 66
      [] c = "C" -> 67
      [] c = "_" -> 95
      [] c = "a" -> 97
      [] c = "b" -> 98
      [] c = "c" -> 99
      [] c = "x" -> 120

\* x < y for two str
RECURSIVE Before(_, _)
Before(x, y) ==
    /\ y # <<>>
    /\ \/ x = <<>>
       \/ CodePoint(Head(x)) < CodePoint(Head(y))
       \/ Head(x) = Head(y) /\ Before(Tail(x), Tail(y))

\* The keys of the context dict (lines 187-192) as yaml.dump writes them
ContextKeys ==
    [extra_modules |-> <<"e", "x", "t", "r", "a", "_", "m", "o", "d", "u", "l", "e", "s">>,
     extra_packages |-> <<"e", "x", "t", "r", "a", "_", "p", "a", "c", "k", "a", "g", "e", "s">>,
     ignored_modules |-> <<"i", "g", "n", "o", "r", "e", "d", "_", "m", "o", "d", "u", "l", "e", "s">>,
     mapping |-> <<"m", "a", "p", "p", "i", "n", "g">>]

\* a[0] + a[1] + ..: the sequences of a sequence, one after the other
RECURSIVE Concat(_)
Concat(seqs) ==
    IF Len(seqs) = 0 THEN <<>>
    ELSE IF Len(seqs) = 1 THEN seqs[1]
    ELSE Concat(SubSeq(seqs, 1, Len(seqs) \div 2))
            \o Concat(SubSeq(seqs, Len(seqs) \div 2 + 1, Len(seqs)))

\* The orders in which yaml.dump can find the entries of the dict: a list of
\* lines 189-191 is list(set), in the order in which the set iterates; the
\* representer sorts the items of a dict by their keys, and leaves them as
\* they are when None is among the keys (sorted raises TypeError)
DumpOrders(ctx) ==
    [extra_modules : Orders(ctx.extra_modules),
     extra_packages : Orders(ctx.extra_packages),
     ignored_modules : Orders(ctx.ignored_modules),
     mapping : {order \in Orders(DOMAIN ctx.mapping) :
                    \/ NoneName \in DOMAIN ctx.mapping
                    \/ \A i, j \in 1..Len(order) : i < j => Before(order[i], order[j])}]

\* The emitter writes a key of the mapping as `key: value` when the key and
\* its tag together have less than this many characters, and else as
\* `? key` and `: value` on two lines
simple_key_length == 128

\* yaml.dump(context, f) of line 91: the strings that the emitter writes to
\* f, one after the other.  The keys come in sorted order; an empty list is
\* ` []` and an empty dict ` {}`, an entry of a list is `- name` on a line of
\* its own, an entry of the mapping `  key: value`; a line break is written
\* before what follows it, the last one at the end of the document.  None is
\* written null; the names of the model are written as they are (none is
\* empty, has a blank or a colon, or reads as a number or a keyword of YAML).
\* The tag that counts with a key is !!str, and !!null for None
yaml_dump(ctx, order) ==
    LET scalar(name) == IF name = NoneName THEN <<"n", "u", "l", "l">> ELSE name
        tag(name) == IF name = NoneName THEN <<"!", "!", "n", "u", "l", "l">>
                     ELSE <<"!", "!", "s", "t", "r">>
        sequence(entries) ==
            IF entries = <<>> THEN << <<" ", "[">>, <<"]">> >>
            ELSE Concat([i \in 1..Len(entries) |->
                            << <<"\n">>, <<"-">>, <<" ">>, scalar(entries[i]) >>])
        entry(key, value) ==
            IF Len(tag(key)) + Len(scalar(key)) < simple_key_length
            THEN << <<"\n">>, <<" ", " ">>, scalar(key), <<":">>, <<" ">>, scalar(value) >>
            ELSE << <<"\n">>, <<" ", " ">>, <<"?">>, <<" ">>, scalar(key),
                    <<"\n">>, <<" ", " ">>, <<":">>, <<" ">>, scalar(value) >>
        mapping(dict, keys) ==
            IF keys = <<>> THEN << <<" ", "{">>, <<"}">> >>
            ELSE Concat([i \in 1..Len(keys) |-> entry(keys[i], dict[keys[i]])])
    IN  << ContextKeys.extra_modules, <<":">> >> \o sequence(order.extra_modules)
        \o << <<"\n">>, ContextKeys.extra_packages, <<":">> >> \o sequence(order.extra_packages)
        \o << <<"\n">>, ContextKeys.ignored_modules, <<":">> >> \o sequence(order.ignored_modules)
        \o << <<"\n">>, ContextKeys.mapping, <<":">> >> \o mapping(ctx.mapping, order.mapping)
        \o << <<"\n">> >>

\* io.DEFAULT_BUFFER_SIZE: the bytes that a file opened for writing in text
\* mode (lines 90 and 238) collects before it hands them to the file
DEFAULT_BUFFER_SIZE == 8192

\* The lengths a file can have while `writes` are written to it between
\* open(.., "w") and the end of the with block: 0, the file emptied by open;
\* then what was handed to the file so far.  The text layer hands over what
\* it holds before a write that would make it hold more than the buffer
\* size, and after a write with which it holds that much; a buffered
\* writer that fills its buffer first hands over multiples of the buffer
\* size.  The rest is written when the file is closed, so that a text that
\* fits the buffer is written at once
Cuts(writes) ==
    LET total == Len(Concat(writes))
        bounds == {Len(Concat(SubSeq(writes, 1, k))) : k \in 0..Len(writes)}
        \* what is handed over next when `length` has been handed over: all
        \* the writes that fit the buffer together, or the one write that
        \* does not fit it
        handed[length \in bounds] ==
            LET fit == CHOOSE b \in bounds :
                        /\ b - length <= DEFAULT_BUFFER_SIZE
                        /\ \A c \in bounds : c - length <= DEFAULT_BUFFER_SIZE => c <= b
                next == IF fit > length THEN fit
                        ELSE CHOOSE b \in bounds :
                                b > length /\ \A c \in bounds : c > length => b <= c
            IN  IF fit = total THEN {length} ELSE {length} \cup handed[next]
    IN  {p \in handed[0]
                \cup {k * DEFAULT_BUFFER_SIZE : k \in 0..(total \div DEFAULT_BUFFER_SIZE)} :
            p < total}

\* text.split("\n"): the lines of a text, the last one being what follows
\* the last line break
Lines(text) ==
    LET breaks == {i \in 1..Len(text) : text[i] = "\n"}
        ends == breaks \cup {Len(text) + 1}
        line(k) ==
            LET end == CHOOSE e \in ends : Cardinality({x \in ends : x <= e}) = k
                start == IF k = 1 THEN 1
                         ELSE 1 + CHOOSE b \in breaks :
                                    b < end /\ \A c \in breaks : c < end => c <= b
            IN  SubSeq(text, start, end - 1)
    IN  [k \in 1..Cardinality(ends) |-> line(k)]

\* yaml.load(f, Loader=yaml.FullLoader) of line 85 on a text that is the
\* dump of a context or the first characters of one: line after line,
\* `key:` opens a key of the dict, `- name` is one more entry of its list,
\* `  key: value` one more entry of its mapping.  Where the text ends short:
\* a key that has no value yet is None, and so are an entry, a key or a
\* value cut before the name; a name cut short is the name up to there; the
\* first characters of an entry of the mapping are a str when it is the first
\* entry, and else, like the first characters of a key of the dict that is
\* not the first, a key without its colon, which the scanner refuses
yaml_load(text) ==
    LET lines == Lines(text)
        from(t, i) == SubSeq(t, i, Len(t))
        scalar(t) == IF t = <<>> \/ t = <<"n", "u", "l", "l">> THEN NoneName ELSE t
        colon(t) ==
            LET colons == {i \in 1..Len(t) : t[i] = ":" /\ (i = Len(t) \/ t[i + 1] = " ")}
            IN  IF colons = {} THEN 0 ELSE CHOOSE i \in colons : \A j \in colons : i <= j
        top(st, l) ==
            LET c == colon(l)
            IN  IF c = 0
                THEN [st EXCEPT !.kind = IF st.kind = "None" THEN "str" ELSE "ScannerError"]
                ELSE IF from(l, c + 1) \in {<<" ", "[">>, <<" ", "{">>}
                THEN [st EXCEPT !.kind = "ParserError"]
                ELSE [st EXCEPT !.kind = "dict",
                                !.key = CHOOSE k \in DOMAIN ContextKeys :
                                            ContextKeys[k] = SubSeq(l, 1, c - 1),
                                !.value = IF Len(l) <= c + 1 THEN "None" ELSE "whole"]
        item(st, l) ==
            [st EXCEPT !.ctx[st.key] = @ \cup {scalar(from(l, 3))}, !.value = "whole"]
        entry(st, l) ==
            LET body == from(l, 3)
                c == colon(body)
            IN  IF body = <<>> THEN st
                ELSE IF body[1] = "?"
                THEN [st EXCEPT !.ctx.mapping = Put(@, scalar(from(body, 3)), NoneName),
                                !.complex = scalar(from(body, 3)),
                                !.value = "whole"]
                ELSE IF body[1] = ":"
                THEN [st EXCEPT !.ctx.mapping = Put(@, st.complex, scalar(from(body, 3)))]
                ELSE IF c = 0
                THEN IF st.value = "None" THEN [st EXCEPT !.value = "str"]
                     ELSE [st EXCEPT !.kind = "ScannerError"]
                ELSE [st EXCEPT !.ctx.mapping = Put(@, scalar(SubSeq(body, 1, c - 1)),
                                                    scalar(from(body, c + 2))),
                                !.value = "whole"]
        read[k \in 0..Len(lines)] ==
            IF k = 0
            THEN [kind |-> "None", key |-> "", value |-> "None", complex |-> NoneName,
                  ctx |-> EmptyContext]
            ELSE LET st == read[k - 1]
                     l == lines[k]
                 IN  IF l = <<>> \/ st.kind \in {"str", "ScannerError", "ParserError"} THEN st
                     ELSE CASE l[1] = "-" -> item(st, l)
                            [] l[1] = " " -> entry(st, l)
                            [] OTHER -> top(st, l)
        document == read[Len(lines)]
    IN  CASE document.kind = "None" -> None
          [] document.kind # "dict" -> [kind |-> document.kind]
          [] document.value # "whole" -> Unusable
          [] OTHER -> document.ctx

\* _load_context (lines 80-86): {} when there is no file, else what
\* yaml.load gives for the text of the file.  The text of a file changes
\* only when it is written, so the file is kept as what yaml.load reads
\* from the text that its last write left (SavedContext, CutContextFile)
load_context(file) ==
    IF ~file.exists THEN EmptyContext ELSE file.content

(***************************************************************************)
(* _inspect, lines 110-127: the sets the mapping starts from               *)
(***************************************************************************)

\* line 110 without the persisted part: what the run would start from if the
\* context's ignored_modules were not read
ignore_module_set_of_caller(ctx, a) == a.ignore_module

\* line 110
ignore_module_set_initial(ctx, a) == ctx.ignored_modules \cup a.ignore_module

\* lines 113-115
extra_module_cleaned_initial(ctx, a) ==
    ({FirstSegment(x) : x \in a.extra_module} \cup ctx.extra_modules)
        \ ignore_module_set_initial(ctx, a)

\* lines 118-121
required_modules(ctx, a) ==
    (a.only_imported_modules \ ignore_module_set_initial(ctx, a))
        \cup extra_module_cleaned_initial(ctx, a)

\* line 124
conflicting_modules(ctx, a) ==
    a.imported_and_defined_modules \ ignore_module_set_initial(ctx, a)

\* line 127 without the persisted part
extra_package_set_of_caller(ctx, a) == a.extra_package

\* line 127
extra_package_set(ctx, a) == ctx.extra_packages \cup a.extra_package

(***************************************************************************)
(* _inspect, lines 140-194: the results                                    *)
(***************************************************************************)

\* line 173 without the packages of line 140
required_packages_extras_only(ctx, a, required) ==
    ctx.extra_packages \cup a.extra_package

\* line 140, then line 173
required_packages(ctx, a, required) ==
    (Values(required) \ {MODULE_IGNORED}) \cup extra_package_set(ctx, a)

\* lines 156-158
conflicting_packages(conflicting) == Values(conflicting) \ {MODULE_IGNORED}

\* line 164
final_mapping(required, conflicting) ==
    Merge(Merge(conflicting, required), conflicting)

\* line 166
ignore_module_set_final(ctx, a, required, conflicting) ==
    ignore_module_set_initial(ctx, a)
        \cup {m \in DOMAIN final_mapping(required, conflicting) :
                final_mapping(required, conflicting)[m] = MODULE_IGNORED}

\* line 177 without its subtraction: every required package
potential_missing_packages_all(ctx, a, required) ==
    required_packages(ctx, a, required)

\* line 177
potential_missing_packages(ctx, a, required) ==
    required_packages(ctx, a, required) \ a.packages_in_requirements

\* line 183 without line 181: only the caller's keep_package is kept
packages_to_keep_of_caller(a, conflicting) == a.keep_package

\* lines 181-183
packages_to_keep(a, conflicting) ==
    (conflicting_packages(conflicting) \cap a.packages_in_requirements)
        \cup a.keep_package

\* line 185
unused_packages(ctx, a, required, conflicting) ==
    (a.packages_in_requirements \ required_packages(ctx, a, required))
        \ packages_to_keep(a, conflicting)

\* lines 187-192 with no extra_packages kept
updated_context_without_extra_packages(ctx, a, required, conflicting) ==
    [mapping |-> WithoutIgnored(final_mapping(required, conflicting)),
     ignored_modules |-> ignore_module_set_final(ctx, a, required, conflicting),
     extra_modules |-> extra_module_cleaned_initial(ctx, a)
                        \ ignore_module_set_final(ctx, a, required, conflicting),
     extra_packages |-> {}]

\* lines 187-192
updated_context(ctx, a, required, conflicting) ==
    [mapping |-> WithoutIgnored(final_mapping(required, conflicting)),
     ignored_modules |-> ignore_module_set_final(ctx, a, required, conflicting),
     extra_modules |-> extra_module_cleaned_initial(ctx, a)
                        \ ignore_module_set_final(ctx, a, required, conflicting),
     extra_packages |-> extra_package_set(ctx, a)]

\* line 194: the tuple _inspect returns
inspect_result(ctx, a, required, conflicting) ==
    [returned |-> TRUE,
     potential_missing_packages |-> potential_missing_packages(ctx, a, required),
     unused_packages |-> unused_packages(ctx, a, required, conflicting),
     context |-> updated_context(ctx, a, required, conflicting)]

NoResult ==
    [returned |-> FALSE, potential_missing_packages |-> {}, unused_packages |-> {},
     context |-> EmptyContext]

(***************************************************************************)
(* The confirmation callbacks                                              *)
(***************************************************************************)

\* An answer of the hook: a returned value, None, or a raised exception
Return(value) == [kind |-> "return", value |-> value]

Raise(exception) == [kind |-> exception, value |-> EmptyName]

\* packages_inspector.py:32-39 (called with a module that is a str: a
\* module that is None does not get as far as the hook with a candidate of
\* the requirements)
automatic_package_validation(mapping_finder, mod, package) ==
    IF /\ mapping_finder = "UsingRequirements"
       /\ ReplaceDash(Lower(mod)) = ReplaceDash(Lower(package))
    THEN {Return(package)}
    ELSE {Raise("UnableToFindMapping")}

\* packages_inspector.py:42-77: the automatic answer when there is one, else
\* what the operator does at the prompt: one of the choices y, n, i, e, q, or
\* Ctrl-C or the end of the input, at which typer.prompt (line 54, and line
\* 63 after e) raises click.Abort.  For a module that is None, typer.style
\* of line 50 raises TypeError or writes "None", as the installed click does
interactive_package_validation(mapping_finder, mod, package) ==
    IF automatic_package_validation(mapping_finder, mod, package) = {Return(package)}
    THEN {Return(package)}
    ELSE {Return(package), Raise("NoPackageFound"), Raise("ModuleIgnored"),
          Raise("Exit"), Raise("Abort")}
         \cup {Return(e) : e \in {p_b}}   \* a name typed at the "e" choice
         \cup (IF mod = NoneName THEN {Raise("TypeError")} ELSE {})

\* tests/test_inspect.py:9-10
interaction_no_hook(mapping_finder, mod, package) == {Return(package)}

\* Any other callback of the contract: it accepts the candidate, rejects it
\* with None, or raises ModuleIgnored
contract_hook(mapping_finder, mod, package) ==
    {Return(package), [kind |-> "None", value |-> EmptyName], Raise("ModuleIgnored")}

\* interaction_hook(mapping_finder, module, package)
interaction_hook(hook, mapping_finder, mod, package) ==
    CASE hook = "automatic_package_validation" ->
            automatic_package_validation(mapping_finder, mod, package)
      [] hook = "interactive_package_validation" ->
            interactive_package_validation(mapping_finder, mod, package)
      [] hook = "interaction_no_hook" ->
            interaction_no_hook(mapping_finder, mod, package)
      [] hook = "contract_hook" ->
            contract_hook(mapping_finder, mod, package)

\* `if valid_package := interaction_hook(...)`: a returned, non-empty name
Accepted(answer) == answer.kind = "return" /\ Truthy(answer.value)

\* a returned None or empty name: the walrus test fails
Falsy(answer) == answer.kind = "None" \/ (answer.kind = "return" /\ ~Truthy(answer.value))

(***************************************************************************)
(* The recorder                                                            *)
(***************************************************************************)

\* A file is absent, or as its last write left it: whole (torn = "no"), or,
\* when the process was killed between the open() that empties the file and
\* the end of the dump, with the part of the dump that had reached it.  The
\* context file is kept as what yaml.load reads from its text; the torn
\* store is of 0 bytes ("empty"), or ends with a frame of the pickle
\* ("frame") or inside one ("cut")
NoRecordsFile == [exists |-> FALSE, torn |-> "no", records |-> EmptyDict]

NoContextFile == [exists |-> FALSE, torn |-> "no", content |-> EmptyContext]

\* _save_context (lines 89-92) ran to its end: the file holds the dump of
\* ctx, its lists in the order in which their sets iterate
SavedContext(ctx) ==
    [exists |-> TRUE, torn |-> "no",
     content |-> yaml_load(Concat(yaml_dump(ctx, CHOOSE order \in DumpOrders(ctx) : TRUE)))]

\* _save_context was stopped with `text` in the file
CutContextFile(text) == [exists |-> TRUE, torn |-> "cut", content |-> yaml_load(text)]

\* open(self.records_file, "wb") of recorder.py:49 emptied the file and
\* pickle.dump did not run, or not to its end
TornRecordsFile(how) == [exists |-> TRUE, torn |-> how, records |-> EmptyDict]

\* The pickler (protocol 4) hands its frame to the file once the frame holds
\* this many bytes, and writes a str of this many bytes by itself; a shorter
\* pickle is handed over in one piece when pickle.dump ends
FRAME_SIZE_TARGET == 65536

\* What a kill inside pickle.dump(records, f) of recorder.py:50 can leave of
\* the store: 0 bytes; the first frames, when the pickle (at most 12 bytes
\* more than the characters of an entry, and 15 for the dict) may have more
\* than one frame; the bytes up to a str that is written by itself, or up to
\* the end of it
TornStores(records) ==
    LET order == CHOOSE o \in Orders(DOMAIN records) : TRUE
        bytes[k \in 0..Len(order)] ==
            IF k = 0 THEN 15
            ELSE bytes[k - 1] + Len(order[k]) + Len(records[order[k]]) + 12
        long == \E k \in DOMAIN records :
                    Len(k) >= FRAME_SIZE_TARGET \/ Len(records[k]) >= FRAME_SIZE_TARGET
    IN  {"empty"}
            \cup (IF bytes[Len(order)] >= FRAME_SIZE_TARGET THEN {"frame"} ELSE {})
            \cup (IF long THEN {"cut"} ELSE {})

\* FileRecorder.__post_init__ (recorder.py:32-40): the records of the file
\* when there is one; pickle.load raises EOFError on a file of 0 bytes and on
\* one that ends with a frame, UnpicklingError on one that ends inside a
\* frame, and line 40 raises it again
FileRecorder(file) ==
    IF file.exists /\ file.torn \in {"empty", "frame"}
    THEN [kind |-> "EOFError", records |-> EmptyDict]
    ELSE IF file.exists /\ file.torn = "cut"
    THEN [kind |-> "UnpicklingError", records |-> EmptyDict]
    ELSE [kind |-> "FileRecorder",
          records |-> IF file.exists THEN file.records ELSE EmptyDict]

DummyRecorder == [kind |-> "DummyRecorder", records |-> EmptyDict]

\* record_mapping (recorder.py:46-51, 58-59): the recorder afterwards
record_mapping(rec, mod, package) ==
    IF rec.kind = "FileRecorder"
    THEN [rec EXCEPT !.records = Put(rec.records, mod, package)]
    ELSE rec

\* record_mapping: the decision store afterwards
record_mapping_file(rec, file, mod, package) ==
    IF rec.kind = "FileRecorder"
    THEN [exists |-> TRUE, torn |-> "no", records |-> Put(rec.records, mod, package)]
    ELSE file

\* a clear that would keep the store when differences are reported
recorder_clear_if_all_good(rec, file) ==
    IF /\ rec.kind = "FileRecorder"
       /\ results.potential_missing_packages = {}
       /\ results.unused_packages = {}
    THEN NoRecordsFile
    ELSE file

\* clear (recorder.py:42-44, 55-56): the decision store afterwards
recorder_clear(rec, file) ==
    IF rec.kind = "FileRecorder" THEN NoRecordsFile ELSE file

(***************************************************************************)
(* best_package_choice (mapping.py:123-163)                                *)
(***************************************************************************)

\* mapping.py:129
distance_threshold == 20

NoArgs ==
    [entry |-> "none", only_imported_modules |-> {}, imported_and_defined_modules |-> {},
     interaction_hook |-> "automatic_package_validation",
     packages_in_requirements |-> {}, extra_module |-> {}, extra_package |-> {},
     ignore_module |-> {}, keep_package |-> {}, mapping |-> <<>>, pypi_calls |-> FALSE,
     update_context_file |-> FALSE, distance_threshold |-> distance_threshold,
     manifest |-> "none", apply |-> FALSE]

EmptyCache == [k \in {} |-> FALSE]

NoQueries == [k \in {} |-> 0]

NoBefore == [records |-> EmptyDict, repeated |-> FALSE, results |-> NoResult]

Running == [status |-> "running", code |-> -1]

NoOutcome == [kind |-> "none", value |-> EmptyName, finder |-> "none"]

\* the explicit mapping of line 135 given to both comprehensions: what the
\* first one resolved is not added for the second
explicit_mapping_not_augmented == module_to_package_mapping

\* the explicit mapping of the call: line 135 in the first comprehension,
\* line 148 in the second
explicit_mapping ==
    IF pc = "required"
    THEN module_to_package_mapping
    ELSE Merge(module_to_package_mapping, required_packages_mapping)

\* The answers _package_exists can give for a name: the cached one, or
\* whatever the index says at the first lookup (lru_cache, lines 25-29)
package_exists(package) ==
    IF package \in DOMAIN exists_cache THEN {exists_cache[package]} ELSE BOOLEAN

\* @lru_cache without arguments (line 25): maxsize is functools' default
lru_cache_maxsize == 128

\* The cache as the step found it
lru == [exists |-> exists_cache, order |-> cache_order, queries |-> queries]

\* The cache after _package_exists(name) returned `exists` (lines 25-29): a
\* hit makes the entry the most recently used; a miss asks the index
\* (line 27) and stores the result, in place of the least recently used
\* entry when the cache is full
looked_up(name, exists) ==
    IF name \in DOMAIN exists_cache
    THEN [lru EXCEPT !.order = SelectSeq(cache_order, LAMBDA n : n # name) \o <<name>>]
    ELSE LET full == Len(cache_order) >= lru_cache_maxsize
             kept == IF full THEN Tail(cache_order) ELSE cache_order
         IN  [exists |-> [n \in {kept[i] : i \in 1..Len(kept)} \cup {name} |->
                            IF n = name THEN exists ELSE exists_cache[n]],
              order |-> kept \o <<name>>,
              queries |-> Put(queries, name,
                              IF name \in DOMAIN queries THEN queries[name] + 1 ELSE 1)]

\* The step leaves the cache as `cache`
cached(cache) ==
    /\ exists_cache' = cache.exists
    /\ cache_order' = cache.order
    /\ queries' = cache.queries

\* The process of the command has ended: nothing of the run is left but the
\* files and the exit status
Forgotten ==
    /\ args' = NoArgs
    /\ context' = EmptyContext
    /\ recorder' = DummyRecorder
    /\ module_to_package_mapping' = EmptyDict
    /\ todo' = {}
    /\ required_packages_mapping' = EmptyDict
    /\ conflicting_packages_mapping' = EmptyDict
    /\ module' = EmptyName
    /\ strategy' = "idle"
    /\ algorithms' = Algorithms
    /\ passes' = 0
    /\ exists_cache' = EmptyCache
    /\ cache_order' = <<>>
    /\ queries' = NoQueries
    /\ outcome' = NoOutcome
    /\ hook_log' = {}
    /\ results' = NoResult
    /\ before' = NoBefore

\* The process is killed (SIGKILL) inside record_mapping of `value` for the
\* module, between open(.., "wb") of recorder.py:49, which empties the store,
\* and the end of pickle.dump: the store is left torn, the records of the
\* earlier modules gone with it
killed_in_record_mapping(value) ==
    /\ args.entry = "packages_inspector"
    /\ recorder.kind = "FileRecorder"
    /\ \E how \in TornStores(Put(recorder.records, module, value)) :
            records_file' = TornRecordsFile(how)
    /\ pc' = "idle"
    /\ exit' = [status |-> "killed", code |-> -1]
    /\ Forgotten
    /\ UNCHANGED <<context_file, requirements_file>>

\* best_package_choice returns `value`, found by `finder`; record_mapping
\* stores it and the comprehension goes on (lines 131-155), unless the
\* process is killed while record_mapping writes
Returned(value, finder, log, cache) ==
    \/ /\ outcome' = [kind |-> "returned", value |-> value, finder |-> finder]
       /\ hook_log' = log
       /\ cached(cache)
       /\ strategy' = "idle"
       /\ recorder' = record_mapping(recorder, module, value)
       /\ records_file' = record_mapping_file(recorder, records_file, module, value)
       /\ todo' = todo \ {module}
       /\ IF pc = "required"
          THEN /\ required_packages_mapping' = Put(required_packages_mapping, module, value)
               /\ UNCHANGED conflicting_packages_mapping
          ELSE /\ conflicting_packages_mapping' = Put(conflicting_packages_mapping, module, value)
               /\ UNCHANGED required_packages_mapping
       /\ algorithms' = Algorithms
       /\ UNCHANGED <<context_file, requirements_file, pc, args, context, module_to_package_mapping,
                      module, passes, results, exit, before>>
    \/ killed_in_record_mapping(value)

\* How a run ends when `exception` leaves _inspect: the command turns
\* UnableToFindMapping into Exit(code=1) (lines 336-345); typer.Exit() of the
\* "q" choice has code 0; click.Abort, which nothing catches, ends the
\* command with "Aborted!" and code 1, and so does any other exception,
\* with its traceback; a direct caller of _inspect gets the exception
exit_on(exception) ==
    CASE args.entry = "_inspect" -> [status |-> exception, code |-> -1]
      [] exception = "UnableToFindMapping" -> [status |-> exception, code |-> 1]
      [] exception = "Exit" -> [status |-> exception, code |-> 0]
      [] exception = "Abort" -> [status |-> exception, code |-> 1]
      [] OTHER -> [status |-> exception, code |-> 1]

\* `exception` raised by the hook leaves best_package_choice and _inspect: the
\* caller of _inspect gets it; the command ends
Escaped(exception, log, cache) ==
    /\ exit' = exit_on(exception)
    /\ UNCHANGED files
    /\ IF args.entry = "_inspect"
       THEN /\ outcome' = [kind |-> exception, value |-> EmptyName, finder |-> "none"]
            /\ hook_log' = log
            /\ cached(cache)
            /\ strategy' = "idle"
            /\ pc' = "raised"
            /\ UNCHANGED <<args, context, recorder, module_to_package_mapping, todo,
                           required_packages_mapping, conflicting_packages_mapping,
                           module, algorithms, passes, results, before>>
       ELSE /\ pc' = "idle"
            /\ Forgotten

\* The chain goes on with strategy `next`
Continue(next, left, again, log, cache) ==
    /\ strategy' = next
    /\ algorithms' = left
    /\ passes' = again
    /\ hook_log' = log
    /\ cached(cache)
    /\ UNCHANGED <<files, pc, args, context, recorder, module_to_package_mapping,
                   todo, required_packages_mapping, conflicting_packages_mapping,
                   module, outcome, results, exit, before>>

\* ModuleIgnored taken as one more rejection: the chain would go on with the
\* last strategy
Signalled_as_rejection(answer, log, cache) ==
    IF answer.kind = "ModuleIgnored"
    THEN Continue("using_dumb_assumption", Algorithms, passes, log, cache)
    ELSE Escaped(answer.kind, log, cache)

\* What follows an answer of the hook that neither accepts nor rejects:
\* ModuleIgnored ends the chain with the marker (lines 160-161), any other
\* exception but NoPackageFound leaves best_package_choice
Signalled(answer, log, cache) ==
    IF answer.kind = "ModuleIgnored"
    THEN Returned(MODULE_IGNORED, "ModuleIgnored", log, cache)
    ELSE Escaped(answer.kind, log, cache)

\* the strategy after the requirements (lines 145-152)
after_requirements == IF args.pypi_calls THEN "using_pip_search" ELSE "using_dumb_assumption"

\* line 131-135: the comprehension calls best_package_choice for a module it
\* has not mapped yet (a set iterates in no defined order)
best_package_choice ==
    /\ pc \in {"required", "conflicting"}
    /\ strategy = "idle"
    /\ \E m \in todo :
        /\ module' = m
        /\ strategy' = "explicit_mapping"
        /\ algorithms' = Algorithms
        /\ passes' = 0
        /\ hook_log' = {}
        /\ outcome' = NoOutcome
    /\ UNCHANGED <<files, pc, args, context, recorder, module_to_package_mapping,
                   todo, required_packages_mapping, conflicting_packages_mapping,
                   exists_cache, cache_order, queries, results, exit, before>>

\* a chain that would not look at the explicit mapping
find_package_explicit_mapping_skipped ==
    /\ strategy = "explicit_mapping"
    /\ Continue("using_requirements", Algorithms, passes, hook_log, lru)

\* _find_package_explicit_mapping (lines 50-58)
find_package_explicit_mapping ==
    /\ strategy = "explicit_mapping"
    /\ IF module \in DOMAIN explicit_mapping /\ Truthy(explicit_mapping[module])
       THEN LET package == explicit_mapping[module]
            IN  IF package = MODULE_IGNORED \/ ~args.pypi_calls
                THEN Returned(package, "ExplicitMapping", hook_log, lru)
                ELSE \E exists \in package_exists(package) :
                        \* line 56 only logs a warning when it does not exist
                        Returned(package, "ExplicitMapping", hook_log,
                                 looked_up(package, exists))
       ELSE Continue("using_requirements", Algorithms, passes, hook_log,
                     lru)

\* _find_package_using_requirements (lines 61-86), one algorithm of the loop
\* of line 71 at a time.  For a module that is None (an entry of
\* extra_modules that a cut context file holds) the first algorithm raises
\* TypeError at line 77, or finds every package at the same distance and
\* module.lower() of the hook raises AttributeError
find_package_using_requirements ==
    /\ strategy = "using_requirements"
    /\ \/ /\ args.packages_in_requirements = {}
          /\ Continue(after_requirements, Algorithms, passes, hook_log,
                      lru)
       \/ /\ args.packages_in_requirements # {}
          /\ module = NoneName
          /\ \E exception \in {"TypeError", "AttributeError"} :
                Escaped(exception, hook_log, lru)
       \/ /\ args.packages_in_requirements # {}
          /\ module # NoneName
          /\ \E algorithm \in algorithms :
             \E package \in ClosestPackages(algorithm, args.packages_in_requirements, module) :
                LET left == algorithms \ {algorithm}
                    next == IF left = {} THEN after_requirements ELSE "using_requirements"
                    \* the next call of the function iterates over all four again
                    rest == IF left = {} THEN Algorithms ELSE left
                IN  IF DistanceBelow(algorithm, package, module, args.distance_threshold)
                    THEN \E answer \in interaction_hook(args.interaction_hook,
                                                        "UsingRequirements", module, package) :
                            LET log == hook_log \cup {answer.kind}
                            IN  CASE Accepted(answer) ->
                                        Returned(answer.value, "UsingRequirements", log,
                                                 lru)
                                  [] Falsy(answer) ->
                                        Continue(next, rest, passes, log, lru)
                                  [] answer.kind = "NoPackageFound" ->
                                        Continue(after_requirements, Algorithms, passes, log, lru)
                                  [] OTHER -> Signalled(answer, log, lru)
                    ELSE Continue(next, rest, passes, hook_log, lru)

\* _find_package_using_pip_search (lines 89-109); module.replace of line 93
\* raises AttributeError for a module that is None
find_package_using_pip_search ==
    /\ strategy = "using_pip_search"
    /\ IF module = NoneName
       THEN Escaped("AttributeError", hook_log, lru)
       ELSE \E packages \in SUBSET {p_ba} :     \* what `pip search` prints
        \/ /\ packages = {}
           /\ Continue("using_dumb_assumption", algorithms, passes, hook_log,
                       lru)
        \/ /\ packages # {}
           /\ \E package \in ClosestByHamming(packages, module) :
                IF HammingDistance(package, module) < args.distance_threshold
                THEN \E answer \in interaction_hook(args.interaction_hook,
                                                    "UsingPipSearch", module, package) :
                        LET log == hook_log \cup {answer.kind}
                        IN  CASE Accepted(answer) ->
                                    Returned(answer.value, "UsingPipSearch", log,
                                             lru)
                              [] Falsy(answer) \/ answer.kind = "NoPackageFound" ->
                                    Continue("using_dumb_assumption", algorithms, passes,
                                             log, lru)
                              [] OTHER -> Signalled(answer, log, lru)
                ELSE Continue("using_dumb_assumption", algorithms, passes, hook_log, lru)

\* _find_package_using_dumb_assumption (lines 112-120); when it raises
\* NoPackageFound the loop of line 132 starts again (lines 153-159)
find_package_using_dumb_assumption ==
    /\ strategy = "using_dumb_assumption"
    /\ \E exists \in (IF args.pypi_calls THEN package_exists(module) ELSE {TRUE}) :
        LET cache == IF args.pypi_calls THEN looked_up(module, exists) ELSE lru
        IN  IF exists
            THEN \E answer \in interaction_hook(args.interaction_hook,
                                                "UsingDumbAssumption", module, module) :
                    LET log == hook_log \cup {answer.kind}
                    IN  CASE Accepted(answer) ->
                                Returned(answer.value, "UsingDumbAssumption", log, cache)
                          [] Falsy(answer) \/ answer.kind = "NoPackageFound" ->
                                /\ passes < MaxPasses
                                /\ Continue("explicit_mapping", algorithms, passes + 1,
                                            log, cache)
                          [] OTHER -> Signalled(answer, log, cache)
            ELSE /\ passes < MaxPasses
                 /\ Continue("explicit_mapping", algorithms, passes + 1, hook_log, cache)

(***************************************************************************)
(* _inspect (packages_inspector.py:95-194)                                 *)
(***************************************************************************)

\* No call of best_package_choice is in progress or has just ended
NoCall ==
    /\ module' = EmptyName
    /\ strategy' = "idle"
    /\ algorithms' = Algorithms
    /\ passes' = 0
    /\ outcome' = NoOutcome
    /\ hook_log' = {}

\* lines 110-131: _inspect starts on context `ctx` with the arguments `a`,
\* the explicit mapping `mapping` and the recorder `rec`
inspect_called(a, ctx, mapping, rec) ==
    /\ args' = a
    /\ context' = ctx
    /\ module_to_package_mapping' = mapping
    /\ recorder' = rec
    /\ pc' = "required"
    /\ todo' = required_modules(ctx, a)
    /\ required_packages_mapping' = EmptyDict
    /\ conflicting_packages_mapping' = EmptyDict
    /\ NoCall
    /\ results' = NoResult
    /\ exit' = Running

\* lines 142-154: the first comprehension is done, the second one starts
inspect_conflicting ==
    /\ pc = "required"
    /\ strategy = "idle"
    /\ todo = {}
    /\ pc' = "conflicting"
    /\ todo' = conflicting_modules(context, args)
    /\ NoCall
    /\ UNCHANGED <<files, args, context, recorder, module_to_package_mapping,
                   required_packages_mapping, conflicting_packages_mapping,
                   exists_cache, cache_order, queries, results, exit, before>>

\* lines 162-194: both comprehensions are done, _inspect returns
inspect_return ==
    /\ pc = "conflicting"
    /\ strategy = "idle"
    /\ todo = {}
    /\ results' = inspect_result(context, args, required_packages_mapping,
                                 conflicting_packages_mapping)
    /\ IF args.entry = "_inspect"
       THEN /\ pc' = "returned"
            /\ exit' = [status |-> "returned", code |-> -1]
       ELSE /\ pc' = "inspected"
            /\ UNCHANGED exit
    /\ NoCall
    /\ UNCHANGED <<files, args, context, recorder, module_to_package_mapping, todo,
                   required_packages_mapping, conflicting_packages_mapping,
                   exists_cache, cache_order, queries, before>>

(***************************************************************************)
(* get_all_imports (discovery.py:23-79)                                    *)
(*                                                                         *)
(* A source tree is its root's basename, the directories under the root    *)
(* and its files; a file is in a directory, has a stem, is a .py file or   *)
(* not, parses or not, and holds import statements.                        *)
(***************************************************************************)

\* a module of the standard library, and the list of them (pipreqs' stdlib)
n_os == <<"o", "s">>

standard_modules == {n_os}

\* the basename of the root, a directory that the walk prunes, a file stem
d_root == <<"p">>

d_venv == <<"v", "e", "n", "v">>

f_m == <<"m">>

\* line 30, the names the model uses
ignore_dirs == {d_venv}

\* `import name` (ast.Import) and `from module import ...` (ast.ImportFrom:
\* level dots before the module; the module is None in `from . import x`)
Import(name) == [kind |-> "Import", module |-> name, level |-> 0]

ImportFrom(name, level) == [kind |-> "ImportFrom", module |-> name, level |-> level]

\* the directories os.walk visits: the root and what line 32 leaves
walked_with_ignored(tree) == {tree.root} \cup tree.dirs

walked(tree) == {tree.root} \cup (tree.dirs \ ignore_dirs)

\* lines 35-36: the .py files of the visited directories
read_files(tree) == {f \in tree.files : f.dir \in walked(tree) /\ f.py}

\* lines 34 and 37
candidates(tree) == walked(tree) \cup {f.stem : f \in read_files(tree)}

\* lines 43-56 if the level of an ImportFrom were not looked at
raw_imports_of_any_level(tree) ==
    {st.module : st \in UNION {f.statements : f \in read_files(tree)}}

\* lines 43-56
raw_imports(tree) ==
    {st.module : st \in
        {x \in UNION {f.statements : f \in read_files(tree)} :
            \/ x.kind = "Import"
            \/ x.kind = "ImportFrom" /\ Truthy(x.module) /\ x.level = 0}}

\* lines 59-66
imports(tree) == {FirstSegment(name) : name \in {n \in raw_imports(tree) : Truthy(n)}}

\* line 71
locally_defined_modules(tree) == candidates(tree) \cap imports(tree)

\* lines 73-79: what get_all_imports returns
scan_result(tree) ==
    [returned |-> TRUE,
     only_imported_modules |->
        (imports(tree) \ locally_defined_modules(tree)) \ standard_modules,
     imported_and_defined_modules |-> locally_defined_modules(tree) \ standard_modules]

\* get_all_imports(path): a file that does not parse makes it raise (lines
\* 42 and 57-64)
get_all_imports ==
    /\ pc = "scan"
    /\ IF \E f \in read_files(args.path) : ~f.parses
       THEN /\ pc' = "raised"
            /\ exit' = [status |-> "SyntaxError", code |-> -1]
            /\ UNCHANGED results
       ELSE /\ pc' = "scanned"
            /\ exit' = [status |-> "returned", code |-> -1]
            /\ results' = scan_result(args.path)
    /\ UNCHANGED <<files, args, context, recorder, module_to_package_mapping, todo,
                   required_packages_mapping, conflicting_packages_mapping,
                   exists_cache, cache_order, queries, frame, before>>

(***************************************************************************)
(* The command packages_inspector (packages_inspector.py:250-360)          *)
(***************************************************************************)

\* "module:package".split(":") of line 316: the text before and after the
\* only colon, or nothing when there is not exactly one
Colons(text) == {i \in 1..Len(text) : text[i] = ":"}

\* The dict comprehension of line 316 over the --mapping options in the order
\* given: an option without exactly one colon is left out, and of two options
\* for one module the later one stays
mapping_option(options) ==
    LET good == {i \in 1..Len(options) : Cardinality(Colons(options[i])) = 1}
        key(o) == SubSeq(o, 1, (CHOOSE i \in Colons(o) : TRUE) - 1)
        val(o) == SubSeq(o, (CHOOSE i \in Colons(o) : TRUE) + 1, Len(o))
        last(k) == CHOOSE i \in good :
                      /\ key(options[i]) = k
                      /\ \A j \in good : key(options[j]) = k => j <= i
    IN  [k \in {key(options[i]) : i \in good} |-> val(options[last(k)])]

\* lines 313-317 with the records merged last
command_mapping_records_last(rec, ctx, options) ==
    Merge(Merge(ctx.mapping, mapping_option(options)), rec.records)

\* lines 313-317
command_mapping(rec, ctx, options) ==
    Merge(Merge(rec.records, ctx.mapping), mapping_option(options))

\* line 319
command_hook(interaction) ==
    IF interaction THEN "interactive_package_validation"
    ELSE "automatic_package_validation"

Hooks ==
    {"automatic_package_validation", "interactive_package_validation",
     "interaction_no_hook", "contract_hook"}

\* What --ignore-module can be given in the model
IgnoreModuleOptions == {m_ab}

\* The code base the command is run on (line 307): m.py, which holds
\* `import ab.c` and `import a_b`
CodeBase ==
    [root |-> d_root, dirs |-> {},
     files |-> {[dir |-> d_root, stem |-> f_m, py |-> TRUE, parses |-> TRUE,
                 statements |-> {Import(m_ab_dot_c), Import(m_a_b)}]}]

\* The text of a requirements file: its lines, each the name of a package,
\* and whether the last line ends with a newline
Text(lines, newline) == [lines |-> lines, newline |-> newline]

\* requirements.txt as the first run finds it: "ab\n"
RequirementsTxt == Text(<<m_ab>>, TRUE)

\* The packages of the Pipfile (line 294), which no run writes
Pipfile == {m_ab}

\* _keep_only_names(parse_requirements(requirements)) of line 290: the names
\* of the lines
parse_requirements(file) == {file.lines[i] : i \in 1..Len(file.lines)}

\* lines 289-296: the declared requirements come from --requirements, else
\* from --pipfile, and are empty with neither
packages_declared(manifest) ==
    CASE manifest = "requirements" -> parse_requirements(requirements_file)
      [] manifest = "pipfile" -> Pipfile
      [] manifest = "none" -> {}

\* The number of characters of the names of a file
RECURSIVE Characters(_)
Characters(lines) ==
    IF lines = <<>> THEN 0 ELSE Len(Head(lines)) + Characters(Tail(lines))

\* The longest requirements.txt on which the model runs the command
MaxCharacters == 5

\* The arguments of a run of the command with --apply, --no-pypi-calls and
\* --update-context-file (the default): a manifest is given, and
\* --requirements only with a file of at most MaxCharacters characters
ApplyArgs ==
    {a \in [entry : {"packages_inspector"},
            only_imported_modules : {scan_result(CodeBase).only_imported_modules},
            imported_and_defined_modules :
                {scan_result(CodeBase).imported_and_defined_modules},
            interaction_hook : {command_hook(i) : i \in BOOLEAN},
            packages_in_requirements :
                {packages_declared(m) : m \in {"requirements", "pipfile"}},
            extra_module : {{}},
            extra_package : {{}},
            ignore_module : SUBSET IgnoreModuleOptions,
            keep_package : {{}},
            mapping : {<<>>},
            pypi_calls : {FALSE},
            update_context_file : {TRUE},
            distance_threshold : {distance_threshold},
            manifest : {"requirements", "pipfile"},
            apply : {TRUE}] :
        /\ a.packages_in_requirements = packages_declared(a.manifest)
        /\ a.manifest = "requirements" =>
                Characters(requirements_file.lines) <= MaxCharacters}

\* The arguments of a run of the command without --apply
CommandArgs ==
    {a \in [entry : {"packages_inspector"},
            only_imported_modules : {scan_result(CodeBase).only_imported_modules},
            imported_and_defined_modules :
                {scan_result(CodeBase).imported_and_defined_modules},
            interaction_hook : {command_hook(i) : i \in BOOLEAN},
            packages_in_requirements :
                {packages_declared(m) : m \in {"none", "requirements", "pipfile"}},
            extra_module : SUBSET {m_ab_dot_c},
            extra_package : {{}},
            ignore_module : SUBSET IgnoreModuleOptions,
            keep_package : {{}},
            mapping : {<<>>, << <<"a", "b", ":", "a", "_", "b">>, <<"a", "b", ":", "b">> >>},
            pypi_calls : BOOLEAN,
            update_context_file : BOOLEAN,
            distance_threshold : {distance_threshold},
            manifest : {"none", "requirements", "pipfile"},
            apply : {FALSE}] :
        a.packages_in_requirements = packages_declared(a.manifest)}

\* The command ends before _inspect with an exception that nothing catches:
\* exit code 1 (click turns EOFError into Abort, also code 1)
died(exception) ==
    /\ pc' = "idle"
    /\ exit' = [status |-> exception, code |-> 1]
    /\ Forgotten

\* lines 299-335: the command loads the context and the decision store,
\* scans the code base, builds the explicit mapping and calls _inspect.  On
\* a context file that does not parse yaml.load raises at line 299; a torn
\* store makes FileRecorder() raise at line 304; a context file that is
\* empty or ends in its first key makes _load_context return None or a str,
\* and context.get of line 315 raises AttributeError; one that ends before
\* the value of a key has begun makes line 315 or lines 110-127 raise
\* TypeError.  A context file that ends anywhere else gives a run the part
\* of the context it holds
command_called(arguments) ==
    /\ pc = "idle"
    /\ \E a \in arguments :
        LET ctx == load_context(context_file)
            rec == FileRecorder(records_file)
        IN  IF ctx \in {ScannerError, ParserError}
            THEN died(ctx.kind)
            ELSE IF rec.kind # "FileRecorder"
            THEN died(rec.kind)
            ELSE IF ctx \in {None, Str}
            THEN died("AttributeError")
            ELSE IF ctx = Unusable
            THEN died("TypeError")
            ELSE /\ inspect_called(a, ctx, command_mapping(rec, ctx, a.mapping), rec)
                 /\ exists_cache' = EmptyCache
                 /\ cache_order' = <<>>
                 /\ queries' = NoQueries
                 /\ before' = [NoBefore EXCEPT !.records = records_file.records]
    /\ UNCHANGED files

\* The command is run without --apply
packages_inspector == command_called(CommandArgs)

\* The command is run with --apply and --no-pypi-calls
packages_inspector_apply == command_called(ApplyArgs)

\* line 348 without the test of line 347: the context is saved whatever
\* update_context_file is
save_context_unconditionally ==
    /\ pc = "inspected"
    /\ pc' = "saved"
    /\ context_file' = SavedContext(results.context)
    /\ UNCHANGED <<records_file, requirements_file, args, context, recorder,
                   module_to_package_mapping,
                   todo, required_packages_mapping, conflicting_packages_mapping,
                   exists_cache, cache_order, queries, frame, results, exit, before>>

\* The process is killed (SIGKILL) inside _save_context, between open(path,
\* "w") of line 90, which empties the context file, and the end of the with
\* block: the file is left with what had reached it of the dump, nothing at
\* all when the dump fits the buffer of the file; what an earlier run saved
\* is gone
killed_in_save_context ==
    /\ args.update_context_file
    /\ \E order \in DumpOrders(results.context) :
        LET writes == yaml_dump(results.context, order)
        IN  \E p \in Cuts(writes) :
                context_file' = CutContextFile(SubSeq(Concat(writes), 1, p))
    /\ pc' = "idle"
    /\ exit' = [status |-> "killed", code |-> -1]
    /\ Forgotten
    /\ UNCHANGED <<records_file, requirements_file>>

\* lines 347-348, unless the process is killed while _save_context writes
save_context ==
    /\ pc = "inspected"
    /\ \/ /\ pc' = "saved"
          /\ context_file' = IF args.update_context_file
                             THEN SavedContext(results.context)
                             ELSE context_file
          /\ UNCHANGED <<records_file, requirements_file, args, context, recorder,
                         module_to_package_mapping, todo, required_packages_mapping,
                         conflicting_packages_mapping, exists_cache, cache_order,
                         queries, frame, results, exit, before>>
       \/ killed_in_save_context

\* line 350
clear_recorder ==
    /\ pc = "saved"
    /\ pc' = "cleared"
    /\ records_file' = recorder_clear(recorder, records_file)
    /\ UNCHANGED <<context_file, requirements_file, args, context, recorder,
                   module_to_package_mapping,
                   todo, required_packages_mapping, conflicting_packages_mapping,
                   exists_cache, cache_order, queries, frame, results, exit, before>>

\* lines 352-360
exit_status(res) ==
    IF res.potential_missing_packages # {} \/ res.unused_packages # {}
    THEN [status |-> "differences", code |-> 1]
    ELSE [status |-> "All good", code |-> 0]

\* _apply_results with the Pipfile branches skipped: nothing is raised
apply_results_skipped(a, res) == "none"

\* _apply_results (lines 222-246): what it raises.  A requirements file is
\* edited; a Pipfile (taken only when no requirements file is given) raises
\* NotImplementedError when there is a package to add or to remove
apply_results(a, res) ==
    IF /\ a.manifest = "pipfile"
       /\ (res.potential_missing_packages # {} \/ res.unused_packages # {})
    THEN "NotImplementedError"
    ELSE "none"

\* lines 228-231: "\n".join(potential_missing_packages), iterated in `order`,
\* is appended to the file; the first name lands on the last line of the
\* file when that line has no newline at its end
appended(file, order) ==
    IF order = <<>> THEN file
    ELSE IF file.newline \/ file.lines = <<>>
    THEN Text(file.lines \o order, FALSE)
    ELSE Text(SubSeq(file.lines, 1, Len(file.lines) - 1)
                \o <<file.lines[Len(file.lines)] \o Head(order)>> \o Tail(order),
              FALSE)

\* lines 235-244: the file is written again without the lines of the unused
\* packages
removed(file, unused) ==
    IF unused = {} THEN file
    ELSE LET kept == SelectSeq(file.lines, LAMBDA line : line \notin unused)
         IN  Text(kept,
                  IF file.lines # <<>> /\ file.lines[Len(file.lines)] \notin unused
                  THEN file.newline ELSE TRUE)

\* _apply_results on a requirements file (lines 222-246)
applied(file, res, order) == removed(appended(file, order), res.unused_packages)

\* _output_results (lines 204-219): what it raises.  sorted and "\n".join
\* of line 215 raise TypeError when None is among the missing packages (an
\* entry of extra_packages that a cut context file holds)
output_results(res) ==
    IF NoneName \in res.potential_missing_packages THEN "TypeError" ELSE "none"

\* --apply --requirements is given, and line 355 is reached
applies_to_requirements ==
    args.apply /\ args.manifest = "requirements" /\ output_results(results) = "none"

\* The process is killed (SIGKILL) inside _apply_results or right after it:
\* the missing packages appended (by the one write of line 231) and the
\* unused ones still there, or the file as _apply_results leaves it, or,
\* between open(requirements, "w") of line 238 and the end of the with
\* block, what had reached the file of the lines that writelines writes:
\* nothing at all when they fit the buffer of the file
killed_in_apply_results ==
    /\ applies_to_requirements
    /\ \E order \in Orders(results.potential_missing_packages) :
        LET after == applied(requirements_file, results, order)
            writes == [i \in 1..Len(after.lines) |->
                        IF i < Len(after.lines) \/ after.newline
                        THEN after.lines[i] \o <<"\n">> ELSE after.lines[i]]
            left(p) == LET lines == Lines(SubSeq(Concat(writes), 1, p))
                           last == lines[Len(lines)]
                       IN  Text(IF last = <<>> THEN SubSeq(lines, 1, Len(lines) - 1)
                                ELSE lines,
                                last = <<>>)
        IN  requirements_file' \in
                {appended(requirements_file, order), after}
                \cup (IF results.unused_packages # {}
                      THEN {left(p) : p \in Cuts(writes)} ELSE {})
    /\ requirements_file' # requirements_file
    /\ pc' = "idle"
    /\ exit' = [status |-> "killed", code |-> -1]
    /\ Forgotten
    /\ UNCHANGED <<context_file, records_file>>

\* lines 352-360: the results are printed, applied with --apply, and the
\* exit code is chosen; an uncaught exception ends the process with code 1
command_exit ==
    /\ pc = "cleared"
    /\ \/ /\ pc' = "idle"
          /\ exit' = IF output_results(results) # "none"
                     THEN [status |-> output_results(results), code |-> 1]
                     ELSE IF args.apply /\ apply_results(args, results) # "none"
                     THEN [status |-> apply_results(args, results), code |-> 1]
                     ELSE exit_status(results)
          /\ IF applies_to_requirements
             THEN \E order \in Orders(results.potential_missing_packages) :
                    requirements_file' = applied(requirements_file, results, order)
             ELSE UNCHANGED requirements_file
          /\ Forgotten
          /\ UNCHANGED <<context_file, records_file>>
       \/ killed_in_apply_results

\* The process is killed while the command runs, outside a write of a file:
\* the files stay as they are (a kill inside a write is
\* killed_in_record_mapping, killed_in_save_context or killed_in_apply_results)
crash ==
    /\ pc \in {"required", "conflicting", "inspected", "saved", "cleared"}
    /\ args.entry = "packages_inspector"
    /\ pc' = "idle"
    /\ exit' = [status |-> "killed", code |-> -1]
    /\ Forgotten
    /\ UNCHANGED files

Init ==
    /\ context_file = NoContextFile
    /\ records_file = NoRecordsFile
    /\ requirements_file = RequirementsTxt
    /\ pc = "idle"
    /\ args = NoArgs
    /\ context = EmptyContext
    /\ recorder = DummyRecorder
    /\ module_to_package_mapping = EmptyDict
    /\ todo = {}
    /\ required_packages_mapping = EmptyDict
    /\ conflicting_packages_mapping = EmptyDict
    /\ module = EmptyName
    /\ strategy = "idle"
    /\ algorithms = Algorithms
    /\ passes = 0
    /\ exists_cache = EmptyCache
    /\ cache_order = <<>>
    /\ queries = NoQueries
    /\ outcome = NoOutcome
    /\ hook_log = {}
    /\ results = NoResult
    /\ exit = Running
    /\ before = NoBefore

Next ==
    \/ packages_inspector
    \/ best_package_choice
    \/ find_package_explicit_mapping
    \/ find_package_using_requirements
    \/ find_package_using_pip_search
    \/ find_package_using_dumb_assumption
    \/ inspect_conflicting
    \/ inspect_return
    \/ save_context
    \/ clear_recorder
    \/ command_exit
    \/ crash

Spec == Init /\ [][Next]_vars

\* Runs of the command with --apply and --no-pypi-calls, on requirements.txt
\* or on the Pipfile
NextApply ==
    \/ packages_inspector_apply
    \/ best_package_choice
    \/ find_package_explicit_mapping
    \/ find_package_using_requirements
    \/ find_package_using_dumb_assumption
    \/ inspect_conflicting
    \/ inspect_return
    \/ save_context
    \/ clear_recorder
    \/ command_exit
    \/ crash

SpecApply == Init /\ [][NextApply]_vars

(***************************************************************************)
(* _inspect called directly, as the tests call it: the arguments are drawn *)
(* at the start, the recorder is the default DummyRecorder, and a call     *)
(* that returned may be repeated on the context it returned.               *)
(***************************************************************************)

\* A context an earlier run left
SomeContext ==
    [mapping |-> EmptyDict, ignored_modules |-> {m_a_b}, extra_modules |-> {m_ab},
     extra_packages |-> {p_b}]

\* The state _inspect starts in (lines 110-131), for a direct call
InspectStarts(a, ctx, mapping) ==
    /\ context_file = NoContextFile
    /\ records_file = NoRecordsFile
    /\ requirements_file = RequirementsTxt
    /\ args = a
    /\ context = ctx
    /\ module_to_package_mapping = mapping
    /\ recorder = DummyRecorder
    /\ pc = "required"
    /\ todo = required_modules(ctx, a)
    /\ required_packages_mapping = EmptyDict
    /\ conflicting_packages_mapping = EmptyDict
    /\ module = EmptyName
    /\ strategy = "idle"
    /\ algorithms = Algorithms
    /\ passes = 0
    /\ exists_cache = EmptyCache
    /\ cache_order = <<>>
    /\ queries = NoQueries
    /\ outcome = NoOutcome
    /\ hook_log = {}
    /\ results = NoResult
    /\ exit = Running
    /\ before = NoBefore

\* Reconciliation: every argument of _inspect varies, under the test's
\* accept-all hook and the interactive one
InspectArgs ==
    {a \in [entry : {"_inspect"},
            only_imported_modules : SUBSET Modules,
            imported_and_defined_modules : SUBSET {m_ab},
            interaction_hook : {"interaction_no_hook", "interactive_package_validation"},
            packages_in_requirements : {{}, {m_ab, p_b}, {p_A_B, p_b}},
            extra_module : SUBSET {m_ab_dot_c},
            extra_package : SUBSET {<<"x">>},
            ignore_module : SUBSET IgnoreModuleOptions,
            keep_package : SUBSET {p_b},
            mapping : {<<>>},
            pypi_calls : BOOLEAN,
            update_context_file : {FALSE},
            distance_threshold : {distance_threshold},
            manifest : {"none"},
            apply : {FALSE}] :
        a.only_imported_modules \cap a.imported_and_defined_modules = {}}

InitInspect ==
    \E a \in InspectArgs, ctx \in {EmptyContext, SomeContext},
       mapping \in {EmptyDict, [k \in {m_ab} |-> p_b]} :
        InspectStarts(a, ctx, mapping)

\* Resolution: one required module, under every hook, explicit mapping,
\* requirement set and setting of pypi_calls
ResolveArgs ==
    [entry : {"_inspect"},
     only_imported_modules : {{m} : m \in Modules},
     imported_and_defined_modules : {{}},
     interaction_hook : Hooks,
     packages_in_requirements : {{}, {m_ab, p_b}, {p_A_B, p_b}, {p_A_B}},
     extra_module : {{}},
     extra_package : {{}},
     ignore_module : {{}},
     keep_package : {{}},
     mapping : {<<>>},
     pypi_calls : BOOLEAN,
     update_context_file : {FALSE},
     distance_threshold : {distance_threshold},
     manifest : {"none"},
     apply : {FALSE}]

\* The explicit mapping of a call: none, a package, the empty name, the marker
InitResolve ==
    \E a \in ResolveArgs,
       mapping \in {EmptyDict}
                    \cup {[k \in {m_ab} |-> v] : v \in {p_b, EmptyName, MODULE_IGNORED}} :
        InspectStarts(a, EmptyContext, mapping)

\* _inspect is called a second time: on the context the first call returned,
\* that context's mapping as the explicit mapping, and the same arguments
inspect_again ==
    /\ pc = "returned"
    /\ ~before.repeated
    /\ inspect_called(args, results.context, results.context.mapping, recorder)
    /\ before' = [records |-> EmptyDict, repeated |-> TRUE, results |-> results]
    /\ UNCHANGED <<files, exists_cache, cache_order, queries>>

NextInspect ==
    \/ best_package_choice
    \/ find_package_explicit_mapping
    \/ find_package_using_requirements
    \/ find_package_using_pip_search
    \/ find_package_using_dumb_assumption
    \/ inspect_conflicting
    \/ inspect_return
    \/ inspect_again

SpecInspect == InitInspect /\ [][NextInspect]_vars

SpecResolve == InitResolve /\ [][NextInspect]_vars

(***************************************************************************)
(* get_all_imports called on a source tree                                 *)
(***************************************************************************)

\* The most files a tree of the model holds
MaxFiles == 2

\* The statements a file can hold: import ab.c, import a_b, import os,
\* from ab import .., from .a_b import .., from . import ..
Statements ==
    {Import(m_ab_dot_c), Import(m_a_b), Import(n_os), ImportFrom(m_ab, 0),
     ImportFrom(m_a_b, 1), ImportFrom(EmptyName, 1)}

\* The files: .py files that parse and hold a statement, .py files that do
\* not parse, and files that are not .py files
SourceFiles ==
    [dir : {d_root, m_ab, d_venv}, stem : {m_ab, f_m}, py : {TRUE}, parses : {TRUE},
     statements : {{st} : st \in Statements}]
    \cup [dir : {d_root, m_ab, d_venv}, stem : {m_ab, f_m}, py : {TRUE},
          parses : {FALSE}, statements : {{}}]
    \cup [dir : {d_root}, stem : {m_ab, m_a_b}, py : {FALSE}, parses : BOOLEAN,
          statements : {{Import(m_a_b)}}]

\* The sets of at most n files
RECURSIVE FileSets(_)
FileSets(n) ==
    IF n = 0 THEN {{}}
    ELSE FileSets(n - 1) \cup {fs \cup {f} : fs \in FileSets(n - 1), f \in SourceFiles}

\* The trees: every file is in the root or in a directory of the tree, and no
\* two files have the same path
SourceTrees ==
    {t \in [root : {d_root}, dirs : SUBSET {m_ab, d_venv}, files : FileSets(MaxFiles)] :
        /\ \A f \in t.files : f.dir \in {t.root} \cup t.dirs
        /\ \A f, g \in t.files :
                (f.dir = g.dir /\ f.stem = g.stem /\ f.py = g.py) => f = g}

InitScan ==
    /\ context_file = NoContextFile
    /\ records_file = NoRecordsFile
    /\ requirements_file = RequirementsTxt
    /\ pc = "scan"
    /\ args \in [entry : {"get_all_imports"}, path : SourceTrees]
    /\ context = EmptyContext
    /\ module_to_package_mapping = EmptyDict
    /\ recorder = DummyRecorder
    /\ todo = {}
    /\ required_packages_mapping = EmptyDict
    /\ conflicting_packages_mapping = EmptyDict
    /\ module = EmptyName
    /\ strategy = "idle"
    /\ algorithms = Algorithms
    /\ passes = 0
    /\ exists_cache = EmptyCache
    /\ cache_order = <<>>
    /\ queries = NoQueries
    /\ outcome = NoOutcome
    /\ hook_log = {}
    /\ results = NoResult
    /\ exit = Running
    /\ before = NoBefore

NextScan == get_all_imports

SpecScan == InitScan /\ [][NextScan]_vars

(***************************************************************************)
(* best_package_choice with distance_threshold given: the parameter of     *)
(* mapping.py:129, which _inspect leaves at its default, takes the small   *)
(* values at which a distance can equal it.                                *)
(***************************************************************************)

\* The largest threshold given
MaxThreshold == 3

ThresholdArgs ==
    [entry : {"_inspect"},
     only_imported_modules : {{m} : m \in Modules},
     imported_and_defined_modules : {{}},
     interaction_hook : {"interaction_no_hook", "contract_hook"},
     packages_in_requirements : {{}, {p_A_B}, {p_b}, {m_ab, p_b}},
     extra_module : {{}},
     extra_package : {{}},
     ignore_module : {{}},
     keep_package : {{}},
     mapping : {<<>>},
     pypi_calls : BOOLEAN,
     update_context_file : {FALSE},
     distance_threshold : 0..MaxThreshold,
     manifest : {"none"},
     apply : {FALSE}]

InitThreshold ==
    \E a \in ThresholdArgs : InspectStarts(a, EmptyContext, EmptyDict)

SpecThreshold == InitThreshold /\ [][NextInspect]_vars

(***************************************************************************)
(* _package_exists called directly, name after name, in one process: the   *)
(* name checked is the first one again or one not checked before, and the  *)
(* index knows every name.                                                 *)
(***************************************************************************)

\* How many distinct names are checked
MaxNames == 130

\* The i-th name: "p", "pp", "ppp", ...
Name(i) == [k \in 1..i |-> "p"]

\* The names a call can be about: the first name, and the next new one
NamesToCheck ==
    {Name(1)} \cup {Name(i) : i \in {Cardinality(DOMAIN queries) + 1} \cap 1..MaxNames}

InitExists ==
    /\ context_file = NoContextFile
    /\ records_file = NoRecordsFile
    /\ requirements_file = RequirementsTxt
    /\ pc = "checking"
    /\ args = [NoArgs EXCEPT !.entry = "_package_exists"]
    /\ context = EmptyContext
    /\ recorder = DummyRecorder
    /\ module_to_package_mapping = EmptyDict
    /\ todo = {}
    /\ required_packages_mapping = EmptyDict
    /\ conflicting_packages_mapping = EmptyDict
    /\ module = EmptyName
    /\ strategy = "idle"
    /\ algorithms = Algorithms
    /\ passes = 0
    /\ exists_cache = EmptyCache
    /\ cache_order = <<>>
    /\ queries = NoQueries
    /\ outcome = NoOutcome
    /\ hook_log = {}
    /\ results = NoResult
    /\ exit = Running
    /\ before = NoBefore

\* _package_exists(name) (lines 25-29) is called and returns
package_exists_called ==
    /\ pc = "checking"
    /\ \E name \in NamesToCheck :
       \E exists \in package_exists(name) \cap {TRUE} :
            cached(looked_up(name, exists))
    /\ UNCHANGED <<files, pc, args, context, recorder, module_to_package_mapping,
                   todo, required_packages_mapping, conflicting_packages_mapping,
                   frame, results, exit, before>>

NextExists == package_exists_called

SpecExists == InitExists /\ [][NextExists]_vars

(***************************************************************************)
(* Properties of the reconciliation (checked under SpecInspect)            *)
(***************************************************************************)

\* C1: whenever _inspect has returned, the potential missing packages are
\* R minus the declared requirements and the unused packages are the declared
\* requirements minus R minus K, where R is the packages resolved for the
\* required modules (the ignored marker left out) together with the extra
\* packages of the caller and of the context, and K is the packages to keep:
\* the kept packages of the caller and the declared packages that the
\* conflicting modules resolved to.
C1_MissingAndUnused ==
    pc = "returned" =>
        LET resolved == {required_packages_mapping[m] :
                            m \in DOMAIN required_packages_mapping} \ {MODULE_IGNORED}
            conflicting == {conflicting_packages_mapping[m] :
                            m \in DOMAIN conflicting_packages_mapping} \ {MODULE_IGNORED}
            R == resolved \cup (args.extra_package \cup context.extra_packages)
            K == (conflicting \cap args.packages_in_requirements) \cup args.keep_package
        IN  /\ DOMAIN required_packages_mapping = required_modules(context, args)
            /\ results.potential_missing_packages = R \ args.packages_in_requirements
            /\ results.unused_packages = (args.packages_in_requirements \ R) \ K

\* A call returned with a package missing, a package unused, a declared package
\* kept, an extra package persisted in the context and a module ignored
C1_Witness ==
    /\ pc = "returned"
    /\ results.potential_missing_packages # {}
    /\ results.unused_packages # {}
    /\ args.keep_package \cap args.packages_in_requirements # {}
    /\ context.extra_packages # {}
    /\ \E m \in DOMAIN required_packages_mapping :
            required_packages_mapping[m] = MODULE_IGNORED

\* The arguments of the scenario of test_simple_missing_package: nothing is
\* declared, mapped, persisted, added or ignored, the index is not asked and
\* the hook accepts every candidate
C2_Scenario ==
    /\ args.entry = "_inspect"
    /\ ~before.repeated
    /\ args.packages_in_requirements = {}
    /\ module_to_package_mapping = EmptyDict
    /\ context = EmptyContext
    /\ ~args.pypi_calls
    /\ args.interaction_hook = "interaction_no_hook"
    /\ args.extra_module = {}
    /\ args.extra_package = {}
    /\ args.ignore_module = {}

\* C2: in that scenario every module that is only imported resolves to the
\* package of its own name, by the same-name strategy; when _inspect has
\* returned the potential missing packages are the only-imported modules and
\* no package is unused.
C2_SameNameMissing ==
    C2_Scenario =>
        /\ \A m \in DOMAIN required_packages_mapping :
                /\ m \in args.only_imported_modules
                /\ required_packages_mapping[m] = m
        /\ (outcome.kind = "returned" /\ pc = "required")
                => outcome.finder = "UsingDumbAssumption"
        /\ pc = "returned" =>
                /\ DOMAIN required_packages_mapping = args.only_imported_modules
                /\ results.potential_missing_packages = args.only_imported_modules
                /\ results.unused_packages = {}

\* The scenario returned for two only-imported modules
C2_Witness ==
    /\ C2_Scenario
    /\ pc = "returned"
    /\ args.only_imported_modules = Modules
    /\ results.potential_missing_packages = Modules

\* C3, as stated: the second call, made on the context the first one returned,
\* returns that same context and empty missing and unused sets.
C3_SecondRunEmpty ==
    (pc = "returned" /\ before.repeated) =>
        /\ results.context = before.results.context
        /\ results.potential_missing_packages = {}
        /\ results.unused_packages = {}

\* C3, amended: the second call returns the same context as the first one and
\* the same missing and unused sets as the first one (empty exactly when the
\* first call's were).
C3_SecondRunSame ==
    (pc = "returned" /\ before.repeated) =>
        /\ results.context = before.results.context
        /\ results.potential_missing_packages = before.results.potential_missing_packages
        /\ results.unused_packages = before.results.unused_packages

\* A second call returned after a first one that mapped a module at the
\* prompt, ignored another, and reported a missing and an unused package
C3_Witness ==
    /\ pc = "returned"
    /\ before.repeated
    /\ args.interaction_hook = "interactive_package_validation"
    /\ before.results.context.mapping # EmptyDict
    /\ before.results.context.ignored_modules \cap args.only_imported_modules # {}
    /\ before.results.potential_missing_packages # {}
    /\ before.results.unused_packages # {}
    /\ results.potential_missing_packages # {}

(***************************************************************************)
(* Properties of the ignored modules across runs (checked under Spec)      *)
(***************************************************************************)

\* The context file, or its absence, gives a run a context
Loads(file) ==
    load_context(file) \notin {None, Str, Unusable, ScannerError, ParserError}

\* The ignored modules of the context file
persisted_ignored(file) ==
    IF Loads(file) THEN load_context(file).ignored_modules ELSE {}

\* What a run does with the ignored modules of the context file it loaded:
\* none is in the required modules, passed to best_package_choice or mapped
IgnoredInRun ==
    pc' \in {"required", "conflicting", "inspected"} =>
        \A m \in persisted_ignored(context_file') :
            /\ m \in context'.ignored_modules
            /\ m \notin required_modules(context', args')
            /\ m \notin todo'
            /\ module' # m
            /\ m \notin DOMAIN required_packages_mapping'
            /\ m \notin DOMAIN conflicting_packages_mapping'

\* C4: over the runs of the command of which each loads the context that a
\* run before it saved, a module that the loaded context file holds in
\* ignored_modules is not in the required modules, is not passed to
\* best_package_choice and gets no mapping, even when the scanner finds it
\* again or it is given or persisted as an extra module; and a step that
\* leaves a saved context in the file takes no module out of its
\* ignored_modules, so that the next run ignores it too.
C4_IgnoredStaysIgnored ==
    [][/\ context_file'.torn = "no" =>
            \A m \in persisted_ignored(context_file) :
                m \in persisted_ignored(context_file')
       /\ IgnoredInRun]_vars

\* A run resolves another module while the context file, as an earlier run
\* saved it, ignores a module that the scanner found again and that is also
\* given as an extra module
C4_Witness ==
    /\ pc = "required"
    /\ strategy # "idle"
    /\ context_file.exists
    /\ context_file.torn = "no"
    /\ m_ab \in persisted_ignored(context_file)
    /\ m_ab \in args.only_imported_modules
    /\ m_ab \in {FirstSegment(x) : x \in args.extra_module}
    /\ module = m_a_b

(***************************************************************************)
(* Properties of the resolver chain (checked under SpecResolve)            *)
(***************************************************************************)

\* best_package_choice is running for `module`, or has just returned
InCall == module # EmptyName /\ pc \in {"required", "conflicting"}

\* The call is served by the explicit mapping alone: no other strategy is
\* reached, the hook is not invoked, and what is returned is the entry
ServedByEntry ==
    /\ strategy \in {"explicit_mapping", "idle"}
    /\ passes = 0
    /\ hook_log = {}
    /\ outcome.kind # "none" =>
            /\ outcome.kind = "returned"
            /\ outcome.finder = "ExplicitMapping"
            /\ outcome.value = explicit_mapping[module]

\* C5, as stated: when the explicit mapping has an entry for the module, the
\* call returns that entry, with no other strategy tried and the hook not
\* invoked, whatever pypi_calls is and whatever the index says of the package.
C5_AnyEntryWins ==
    (InCall /\ module \in DOMAIN explicit_mapping) => ServedByEntry

\* C5, amended: the same for an entry that is not the empty string; an empty
\* entry counts as no entry (mapping.py:52) and the chain goes on to the
\* other strategies.
C5_NonEmptyEntryWins ==
    (InCall /\ module \in DOMAIN explicit_mapping /\ Truthy(explicit_mapping[module]))
        => ServedByEntry

\* A call returned the entry although the index said the package does not exist
C5_Witness ==
    /\ InCall
    /\ args.pypi_calls
    /\ module \in DOMAIN explicit_mapping
    /\ explicit_mapping[module] = p_b
    /\ p_b \in DOMAIN exists_cache
    /\ ~exists_cache[p_b]
    /\ outcome = [kind |-> "returned", value |-> p_b, finder |-> "ExplicitMapping"]
    /\ args.packages_in_requirements # {}

\* C6, as stated: once every strategy has been tried and the hook has answered
\* None to every candidate, the call does not start the chain again (it fails
\* with NoPackageFound).
C6_ExhaustedChainFails ==
    (InCall /\ hook_log = {"None"}) => passes = 0

\* The chain of a call starts again after the hook rejected every candidate of
\* the requirements and the same-name candidate
C6_Retried ==
    /\ InCall
    /\ args.interaction_hook = "contract_hook"
    /\ args.packages_in_requirements # {}
    /\ hook_log = {"None"}
    /\ passes = MaxPasses
    /\ strategy = "using_dumb_assumption"

\* C7, as stated: under the automatic hook a call ends the first time through
\* the chain: with the explicit entry, with a declared package whose name is
\* the module's up to case and "-"/"_", or with UnableToFindMapping.
C7_AutomaticEnds ==
    (InCall /\ args.interaction_hook = "automatic_package_validation") =>
        /\ passes = 0
        /\ outcome.kind = "returned" =>
            \/ /\ outcome.finder = "ExplicitMapping"
               /\ outcome.value = explicit_mapping[module]
            \/ /\ outcome.finder = "UsingRequirements"
               /\ outcome.value \in args.packages_in_requirements
               /\ ReplaceDash(Lower(outcome.value)) = ReplaceDash(Lower(module))

\* What of C7 the code does: under the automatic hook a call only returns an
\* explicit entry or a declared package of the module's name, and the only
\* exception that leaves it is UnableToFindMapping
C7_AutomaticAnswers ==
    args.interaction_hook = "automatic_package_validation" =>
        /\ (InCall /\ outcome.kind = "returned") =>
            \/ /\ outcome.finder = "ExplicitMapping"
               /\ outcome.value = explicit_mapping[module]
            \/ /\ outcome.finder = "UsingRequirements"
               /\ outcome.value \in args.packages_in_requirements
               /\ ReplaceDash(Lower(outcome.value)) = ReplaceDash(Lower(module))
        /\ pc = "raised" => outcome.kind = "UnableToFindMapping"

\* Under the automatic hook the chain starts again: nothing is declared, the
\* index does not know the module's name and the hook is never asked
C7_Retried ==
    /\ InCall
    /\ args.interaction_hook = "automatic_package_validation"
    /\ args.pypi_calls
    /\ args.packages_in_requirements = {}
    /\ module \in DOMAIN exists_cache
    /\ ~exists_cache[module]
    /\ hook_log = {}
    /\ passes = MaxPasses

\* C8: the step in which the hook raises ModuleIgnored is the last one of the
\* call, at whatever strategy it is raised: the call returns the marker, no
\* later strategy runs, the chain does not start again, the module is mapped
\* to the marker and is not resolved again; and as long as the hook's answers
\* of a call hold ModuleIgnored, no strategy is running.
C8_IgnoredEndsChain ==
    [][/\ ("ModuleIgnored" \notin hook_log /\ "ModuleIgnored" \in hook_log') =>
            /\ strategy \in {"using_requirements", "using_pip_search",
                             "using_dumb_assumption"}
            /\ passes' = passes
            /\ module' = module
       /\ "ModuleIgnored" \in hook_log' =>
            /\ strategy' = "idle"
            /\ outcome' = [kind |-> "returned", value |-> MODULE_IGNORED,
                           finder |-> "ModuleIgnored"]
            /\ module' \notin todo'
            /\ module' \in DOMAIN required_packages_mapping'
            /\ required_packages_mapping'[module'] = MODULE_IGNORED]_vars

\* The hook raised ModuleIgnored at the index search, after it had rejected
\* the candidates of the requirements
C8_Witness ==
    /\ "ModuleIgnored" \in hook_log
    /\ "None" \in hook_log
    /\ args.pypi_calls
    /\ args.packages_in_requirements # {}
    /\ outcome.value = MODULE_IGNORED
    /\ strategy = "idle"

(***************************************************************************)
(* Properties of the decision store (checked under Spec)                   *)
(***************************************************************************)

\* The mappings the run has made so far
mapped_so_far == Merge(conflicting_packages_mapping, required_packages_mapping)

\* Every mapping the run has made is in the decision store
AllRecorded ==
    pc \in {"required", "conflicting", "inspected", "saved"} =>
        \A m \in DOMAIN mapped_so_far :
            /\ records_file.exists
            /\ m \in DOMAIN records_file.records
            /\ records_file.records[m] = mapped_so_far[m]

\* The call for `module` returned the package the store held when the run
\* started, by the explicit mapping and with the hook not invoked
RecordServed ==
    /\ outcome.finder = "ExplicitMapping"
    /\ outcome.value = before.records[module]
    /\ hook_log = {}
    /\ passes = 0

\* C9, as stated: every mapping made in a run is in the decision store before
\* the next module is resolved, and a run that finds a record of a module in
\* the store resolves the module to the recorded package, by the explicit
\* mapping and with the hook not invoked.
C9_RecordedAlwaysServed ==
    /\ AllRecorded
    /\ (InCall /\ outcome.kind = "returned" /\ module \in DOMAIN before.records)
            => RecordServed

\* C9, amended: the same for the modules that neither the mapping of the
\* context file nor --mapping gives an entry; these two come after the store
\* in the merge of lines 313-317 and take the place of the record.
C9_RecordedServedUnlessMapped ==
    /\ AllRecorded
    /\ (/\ InCall
        /\ outcome.kind = "returned"
        /\ module \in DOMAIN before.records
        /\ module \notin DOMAIN context.mapping
        /\ module \notin DOMAIN mapping_option(args.mapping))
            => RecordServed

\* The step stops a run of the command before its end: by a kill, by the quit
\* choice of the prompt or by a mapping that could not be found
StoppedBeforeEnd ==
    /\ args.entry = "packages_inspector"
    /\ pc \in {"required", "conflicting", "inspected", "saved"}
    /\ pc' = "idle"
    /\ exit'.status \in {"killed", "Exit", "Abort", "UnableToFindMapping"}

\* The run that follows the step gets to _inspect and finds there the record
\* of the mapping made for module m
Recoverable(m) ==
    /\ FileRecorder(records_file').kind = "FileRecorder"
    /\ Loads(context_file')
    /\ m \in DOMAIN FileRecorder(records_file').records
    /\ FileRecorder(records_file').records[m] = mapped_so_far[m]

\* C9, the recovery: when a run of the command stops before its end, however
\* it stops, each mapping it has made is a record that the next run loads.
C9_StoppedRunRecovered ==
    [][StoppedBeforeEnd => \A m \in DOMAIN mapped_so_far : Recoverable(m)]_vars

\* A run of the command ended at FileRecorder(), before _inspect, on the store
\* that a killed run left torn
C9_NextRunFails ==
    /\ pc = "idle"
    /\ exit.status \in {"EOFError", "UnpicklingError"}
    /\ records_file.torn # "no"

\* A run under the interactive hook resolved, with no prompt, a module to the
\* package that an earlier run recorded without saving it in the context file
C9_Witness ==
    /\ args.interaction_hook = "interactive_package_validation"
    /\ InCall
    /\ module = m_a_b
    /\ before.records = [k \in {m_a_b} |-> p_b]
    /\ m_a_b \notin DOMAIN context.mapping
    /\ outcome = [kind |-> "returned", value |-> p_b, finder |-> "ExplicitMapping"]
    /\ hook_log = {}

\* C10: a run whose reconciliation completed leaves no decision store behind,
\* whether it reports differences or not, and the run after it starts with
\* no record; a run that ends with UnableToFindMapping, at the "q" choice or
\* by Ctrl-C at the prompt leaves the store as it was.
C10_StoreCleared ==
    [][/\ pc' = "cleared" => ~records_file'.exists
       /\ (pc # "idle" /\ pc' = "idle" /\ exit'.status \in {"All good", "differences"})
            => (pc = "cleared" /\ ~records_file'.exists)
       /\ (pc = "idle" /\ pc' = "required" /\ exit.status \in {"All good", "differences"})
            => (recorder'.records = EmptyDict /\ before'.records = EmptyDict)
       /\ (pc # "idle" /\ pc' = "idle"
                /\ exit'.status \in {"UnableToFindMapping", "Exit", "Abort"})
            => (pc \in {"required", "conflicting"} /\ records_file' = records_file)]_vars

\* A run that reports differences has deleted a store that held its mappings
C10_Witness ==
    /\ pc = "cleared"
    /\ recorder.records # EmptyDict
    /\ ~records_file.exists
    /\ exit_status(results).status = "differences"

(***************************************************************************)
(* Properties of the threshold (checked under SpecThreshold)               *)
(***************************************************************************)

\* The distance of s to t by `alg` is less than the integer n.  The distances
\* of lcsstr and lcsseq are integers; those of ratcliff_obershelp and cosine
\* are 1 - similarity, in 0..1: 0 for equal texts and 1 exactly when the texts
\* share no character.
StrictlyBelow(alg, s, t, n) ==
    CASE alg = "lcsstr" -> Max(Len(s), Len(t)) - Len(LCSStr(s, t)) + 1 <= n
      [] alg = "lcsseq" -> Max(Len(s), Len(t)) - LCSSeqLen(s, t) + 1 <= n
      [] OTHER ->
            \/ n >= 2
            \/ n = 1 /\ \E i \in 1..Len(s), j \in 1..Len(t) : s[i] = t[j]
            \/ n = 1 /\ s = t

\* The declared packages the requirements strategy can offer: for some
\* algorithm, a closest package at a distance less than the threshold
Offerable ==
    {p \in args.packages_in_requirements :
        \E alg \in Algorithms :
            /\ p \in ClosestPackages(alg, args.packages_in_requirements, module)
            /\ StrictlyBelow(alg, p, module, args.distance_threshold)}

\* C11: a candidate is given to the hook only when its distance to the module
\* is less than the threshold, never when it equals it.  Seen under the hook
\* that accepts every candidate: what the requirements strategy returns is a
\* closest declared package at a distance less than the threshold by the
\* algorithm that chose it, and what the search strategy returns is at a
\* Hamming distance less than the threshold; and under any hook the
\* requirements strategy asks the hook only when there is such a package.
C11_StrictThreshold ==
    InCall =>
        /\ (args.interaction_hook = "interaction_no_hook" /\ outcome.kind = "returned") =>
            /\ outcome.finder = "UsingRequirements" => outcome.value \in Offerable
            /\ outcome.finder = "UsingPipSearch" =>
                    HammingDistance(outcome.value, module) + 1 <= args.distance_threshold
        /\ (hook_log # {} /\ passes = 0 /\ strategy = "using_requirements")
                => Offerable # {}

\* With the threshold at 1 the declared package "b", at distance 1 of the
\* module by lcsstr and lcsseq and nearer by the two other algorithms, was
\* offered and returned; the module's own name was not declared
C11_Witness ==
    /\ InCall
    /\ args.interaction_hook = "interaction_no_hook"
    /\ args.distance_threshold = 1
    /\ args.packages_in_requirements = {p_b}
    /\ module = m_ab
    /\ outcome = [kind |-> "returned", value |-> p_b, finder |-> "UsingRequirements"]

\* With the threshold at the Hamming distance of the only search result, the
\* search strategy offered nothing and the same-name strategy answered
C11_WitnessSearch ==
    /\ InCall
    /\ args.interaction_hook = "interaction_no_hook"
    /\ args.pypi_calls
    /\ args.packages_in_requirements = {}
    /\ args.distance_threshold = HammingDistance(p_ba, module)
    /\ outcome.kind = "returned"
    /\ outcome.finder = "UsingDumbAssumption"

(***************************************************************************)
(* Properties of the scan (checked under SpecScan)                         *)
(***************************************************************************)

\* The names get_all_imports returned
scanned_names == results.only_imported_modules \cup results.imported_and_defined_modules

\* The directory basenames and the .py file stems met during the walk, which
\* does not go into the directories of ignore_dirs
met_in_walk ==
    LET visited == {args.path.root} \cup {d \in args.path.dirs : d \notin ignore_dirs}
    IN  visited \cup {f.stem : f \in {g \in args.path.files : g.py /\ g.dir \in visited}}

\* C12: when get_all_imports has returned, its two sets are disjoint, every
\* name in them is the text before the first dot of the module of an import
\* statement of a file of the tree, and a returned name is in the second set
\* exactly when it is the basename of a directory or the stem of a .py file
\* met during the walk.
C12_ScanPartition ==
    pc = "scanned" =>
        /\ results.only_imported_modules \cap results.imported_and_defined_modules = {}
        /\ \A n \in scanned_names :
            /\ \E f \in args.path.files : \E st \in f.statements :
                    Truthy(st.module) /\ FirstSegment(st.module) = n
            /\ (n \in results.imported_and_defined_modules) = (n \in met_in_walk)

\* A scan returned a module that a directory of the tree defines beside one
\* that is only imported, in a tree that also has a directory the walk prunes
C12_Witness ==
    /\ pc = "scanned"
    /\ results.imported_and_defined_modules = {m_ab}
    /\ results.only_imported_modules = {m_a_b}
    /\ args.path.dirs = {m_ab, d_venv}
    /\ \A f \in args.path.files : f.stem = f_m

\* C13: every name get_all_imports returned is named by an import statement
\* that is not relative (level 0) in a file the walk read; a relative import,
\* with or without a module part, adds no name.
C13_NoRelativeImport ==
    pc = "scanned" =>
        \A n \in scanned_names :
            \E f \in args.path.files : \E st \in f.statements :
                /\ f.py
                /\ st.level = 0
                /\ FirstSegment(st.module) = n

\* A scan returned for a tree whose files hold `from .a_b import ..` and an
\* import that is not relative: only the latter's module is returned
C13_Witness ==
    /\ pc = "scanned"
    /\ \E f \in args.path.files :
            f.py /\ f.dir = d_root /\ f.statements = {ImportFrom(m_a_b, 1)}
    /\ \E f \in args.path.files :
            f.py /\ f.dir = d_root /\ f.statements = {ImportFrom(m_ab, 0)}
    /\ scanned_names = {m_ab}

(***************************************************************************)
(* Properties of the returned context (checked under SpecInspect)          *)
(***************************************************************************)

\* The modules a comprehension of _inspect mapped to the ignored marker
resolved_to_ignored ==
    {m \in DOMAIN required_packages_mapping :
        required_packages_mapping[m] = MODULE_IGNORED}
    \cup {m \in DOMAIN conflicting_packages_mapping :
        conflicting_packages_mapping[m] = MODULE_IGNORED}

\* C14: the context _inspect returns has exactly the keys mapping,
\* ignored_modules, extra_modules and extra_packages; no value of its mapping
\* is the ignored marker; every module the run resolved to the marker is in
\* its ignored_modules; and no module is both a key of its mapping and one of
\* its ignored_modules.
C14_ContextShape ==
    pc = "returned" =>
        /\ DOMAIN results.context =
                {"mapping", "ignored_modules", "extra_modules", "extra_packages"}
        /\ \A m \in DOMAIN results.context.mapping :
                results.context.mapping[m] # MODULE_IGNORED
        /\ resolved_to_ignored \subseteq results.context.ignored_modules
        /\ DOMAIN results.context.mapping \cap results.context.ignored_modules = {}

\* _inspect returned after one module was resolved to the marker and another
\* to a package
C14_Witness ==
    /\ pc = "returned"
    /\ resolved_to_ignored # {}
    /\ DOMAIN results.context.mapping # {}
    /\ ~(resolved_to_ignored \subseteq ignore_module_set_initial(context, args))

(***************************************************************************)
(* Properties of the end of a run of the command (Spec, SpecApply)         *)
(***************************************************************************)

\* The command is at lines 352-360 of a run with --apply whose declared
\* requirements come from a Pipfile, and the step ends the run there
ApplyToPipfile ==
    /\ pc = "cleared"
    /\ pc' = "idle"
    /\ exit'.status # "killed"
    /\ args.apply
    /\ args.manifest = "pipfile"

\* The run found a package to add to the manifest or to remove from it
Differences ==
    results.potential_missing_packages # {} \/ results.unused_packages # {}

\* C15 as stated: a run with --apply on a Pipfile that gets to the point of
\* applying its results ends with NotImplementedError.
C15_ApplyToPipfileFails ==
    [][ApplyToPipfile => exit'.status = "NotImplementedError"]_vars

\* C15 amended: a run with --apply on a Pipfile that found a missing or an
\* unused package ends with NotImplementedError, uncaught (exit code 1); a
\* run that found none has nothing to apply and ends with "All good".
C15_ApplyToPipfileFailsOnDifferences ==
    [][ApplyToPipfile =>
        IF Differences
        THEN exit' = [status |-> "NotImplementedError", code |-> 1]
        ELSE exit' = [status |-> "All good", code |-> 0]]_vars

\* A run ended with NotImplementedError
C15_Witness ==
    /\ pc = "idle"
    /\ exit = [status |-> "NotImplementedError", code |-> 1]

\* The exit code of a run that found no missing and no unused package
success_code == exit_status(NoResult).code

\* The run of the command ended on the "q" choice of the prompt
Quit == pc = "idle" /\ exit.status = "Exit"

\* The run of the command failed: it found missing or unused packages, or the
\* mapping of a module could not be found
Failed == pc = "idle" /\ exit.status \in {"differences", "UnableToFindMapping"}

\* C16: a run that ends with no missing and no unused package, a run ended by
\* the quit choice of the prompt and a run that fails end with three exit
\* codes that differ from one another.
C16_DistinctOutcomes ==
    /\ Quit => exit.code # success_code
    /\ Failed => exit.code # success_code
    /\ Quit => exit.code # exit_on("UnableToFindMapping").code

\* A run ended by the quit choice has the exit code of a successful run
C16_QuitAsSuccess == Quit /\ exit.code = success_code

\* A run of the command is between its start and the end of _inspect
Reconciling ==
    args.entry = "packages_inspector" /\ pc \in {"required", "conflicting", "inspected"}

\* The step ends a run of the command by a mapping that could not be found,
\* by the quit choice of the prompt, or by Ctrl-C or the end of the input at
\* the prompt
Aborted ==
    /\ pc # "idle"
    /\ pc' = "idle"
    /\ exit'.status \in {"UnableToFindMapping", "Exit", "Abort"}

\* C17: a run of the command writes the context file at most once, in the
\* step that follows the return of _inspect and only when update_context_file
\* is set: until then the file holds what the run loaded, after it the file
\* is not written again (the step leaves the returned context in the file,
\* or the process is killed in the write and the run is over), and a run
\* that ends with UnableToFindMapping, by the quit choice or by Ctrl-C at the
\* prompt ends before that step, the file unchanged.
C17_ContextWrittenOnce ==
    [][/\ Reconciling => load_context(context_file) = context
       /\ context_file' # context_file =>
            /\ pc = "inspected"
            /\ results.returned
            /\ args.update_context_file
            /\ \/ pc' = "saved" /\ context_file' = SavedContext(results.context)
               \/ pc' = "idle" /\ exit'.status = "killed"
       /\ Aborted => Reconciling /\ pc # "inspected" /\ context_file' = context_file
      ]_vars

\* The command has saved a context that differs from the one it loaded
C17_Witness ==
    /\ pc = "saved"
    /\ args.update_context_file
    /\ context_file = SavedContext(results.context)
    /\ results.context # context

\* A run with persistence disabled got through the saving step with a context
\* to save that differs from the file's
C17_WitnessDisabled ==
    /\ pc = "saved"
    /\ ~args.update_context_file
    /\ load_context(context_file) # results.context

(***************************************************************************)
(* Properties of the chain and of the two comprehensions                   *)
(***************************************************************************)

\* C18: the chain of a call starts again from the explicit mapping only after
\* a pass in which the hook was offered a candidate: as long as no strategy
\* of the call has asked the hook, the call is in its first pass.
C18_RetryOnlyAfterOffer ==
    (InCall /\ passes > 0) => hook_log # {}

\* Under the interactive hook the chain has started again though nothing was
\* offered: nothing is declared, the search finds nothing and the index does
\* not know the module's name
C18_RetriedUnasked ==
    /\ InCall
    /\ args.interaction_hook = "interactive_package_validation"
    /\ passes > 0
    /\ hook_log = {}
    /\ strategy = "explicit_mapping"

\* The second comprehension is working on, or has just mapped, a module that
\* the first comprehension mapped too
MappedAgain ==
    /\ pc = "conflicting"
    /\ module # EmptyName
    /\ module \in DOMAIN required_packages_mapping

\* C19: a module that is a required module and an imported-and-defined one is
\* mapped by the second comprehension from the explicit mapping, which holds
\* what the first comprehension mapped it to: the hook is not called, no later
\* strategy runs, the value is the same, and the mapping of the returned
\* context holds that one package for it.
C19_SecondPassSame ==
    /\ MappedAgain =>
        /\ hook_log = {}
        /\ passes = 0
        /\ strategy \in {"explicit_mapping", "idle"}
        /\ strategy = "idle" =>
            /\ outcome.kind = "returned"
            /\ outcome.finder = "ExplicitMapping"
            /\ outcome.value = required_packages_mapping[module]
            /\ conflicting_packages_mapping[module] = required_packages_mapping[module]
    /\ pc = "returned" =>
        \A m \in DOMAIN required_packages_mapping \cap DOMAIN conflicting_packages_mapping :
            /\ conflicting_packages_mapping[m] = required_packages_mapping[m]
            /\ required_packages_mapping[m] # MODULE_IGNORED =>
                /\ m \in DOMAIN results.context.mapping
                /\ results.context.mapping[m] = required_packages_mapping[m]

\* _inspect returned after the operator had named at the prompt, in the first
\* comprehension, the package of a module that the caller gave no mapping for
\* and that both comprehensions map
C19_Witness ==
    /\ pc = "returned"
    /\ m_ab \in DOMAIN required_packages_mapping \cap DOMAIN conflicting_packages_mapping
    /\ m_ab \notin DOMAIN module_to_package_mapping
    /\ args.packages_in_requirements = {}
    /\ required_packages_mapping[m_ab] = p_b
    /\ results.context.mapping[m_ab] = p_b

\* The packages the second comprehension mapped the imported-and-defined
\* modules to
packages_of_defined ==
    {conflicting_packages_mapping[m] : m \in DOMAIN conflicting_packages_mapping}
        \ {MODULE_IGNORED}

\* The packages the first comprehension mapped the required modules to, and
\* the extra packages of the context and of the caller
packages_of_required ==
    ({required_packages_mapping[m] : m \in DOMAIN required_packages_mapping}
        \ {MODULE_IGNORED})
    \cup context.extra_packages \cup args.extra_package

\* C20: in what _inspect returns, a package of an imported-and-defined module
\* is not unused if it is declared, and not missing if it is not declared,
\* unless it is also the package of a required module or an extra package;
\* and no package of keep_package is unused.
C20_DefinedAndKept ==
    pc = "returned" =>
        /\ \A p \in packages_of_defined :
            /\ p \in args.packages_in_requirements =>
                    p \notin results.unused_packages
            /\ (p \notin args.packages_in_requirements /\ p \notin packages_of_required) =>
                    p \notin results.potential_missing_packages
        /\ \A p \in args.keep_package : p \notin results.unused_packages

\* _inspect returned with a declared package that only an imported-and-defined
\* module maps to and a declared package that only keep_package names
C20_Witness ==
    /\ pc = "returned"
    /\ packages_of_defined \cap args.packages_in_requirements # {}
    /\ packages_of_defined \cap packages_of_required = {}
    /\ \E p \in args.keep_package :
            /\ p \in args.packages_in_requirements
            /\ p \notin packages_of_required \cup packages_of_defined
    /\ results.unused_packages = {}

\* _inspect returned with a package that only an imported-and-defined module
\* maps to and that is not declared: it is not missing
C20_WitnessUndeclared ==
    /\ pc = "returned"
    /\ \E p \in packages_of_defined :
            p \notin args.packages_in_requirements \cup packages_of_required
    /\ results.potential_missing_packages = {}

(***************************************************************************)
(* Properties of the strategy that uses the requirements                   *)
(***************************************************************************)

\* The step leaves _find_package_using_requirements with NoPackageFound: the
\* chain goes on with the next strategy
RequirementsGivenUp ==
    /\ strategy = "using_requirements"
    /\ strategy' \in {"using_pip_search", "using_dumb_assumption"}

\* The step is the last iteration of the loop of line 71, or there was no
\* requirement to look at
MeasuresExhausted ==
    args.packages_in_requirements = {} \/ Cardinality(algorithms) = 1

\* C21: _find_package_using_requirements gives up only when all four
\* algorithms have been tried: a rejected candidate, by a returned None or by
\* the "n" of the prompt, is followed by the remaining algorithms.
C21_AllMeasuresTried ==
    [][RequirementsGivenUp => MeasuresExhausted]_vars

\* What of C21 the code does: a candidate rejected by a falsy answer is
\* followed by the remaining algorithms
C21_SentinelTriesAll ==
    [][(RequirementsGivenUp /\ "NoPackageFound" \notin hook_log') => MeasuresExhausted]_vars

\* The operator answered "n" to the first candidate of the requirements and
\* the chain is already at the next strategy
C21_GivenUpAtOnce ==
    /\ InCall
    /\ args.interaction_hook = "interactive_package_validation"
    /\ args.packages_in_requirements # {}
    /\ passes = 0
    /\ hook_log = {"NoPackageFound"}
    /\ strategy = after_requirements

(***************************************************************************)
(* Properties of the cache of _package_exists                              *)
(***************************************************************************)

\* C22: in one process the index is asked at most once about a name,
\* whatever names are checked and however many other names are checked
\* between two checks of the same one.
C22_OneQueryPerName ==
    \A name \in DOMAIN queries : queries[name] <= 1

\* The index has been asked twice about the first name: more names than the
\* cache holds were checked since it was first asked
C22_AskedAgain ==
    /\ pc = "checking"
    /\ Name(1) \in DOMAIN queries
    /\ queries[Name(1)] = 2
    /\ Cardinality(DOMAIN queries) > lru_cache_maxsize
    /\ Len(cache_order) = lru_cache_maxsize

(***************************************************************************)
(* Properties of the two result sets                                       *)
(***************************************************************************)

\* C23: when _inspect returns, every unused package is a declared
\* requirement, no potential missing package is one, and so no package is
\* in both sets.
C23_ResultsApart ==
    pc = "returned" =>
        /\ results.unused_packages \subseteq args.packages_in_requirements
        /\ results.potential_missing_packages \cap args.packages_in_requirements = {}
        /\ results.unused_packages \cap results.potential_missing_packages = {}

\* _inspect returned a missing package and an unused one, with a declared
\* package that is required too
C23_Witness ==
    /\ pc = "returned"
    /\ results.unused_packages # {}
    /\ results.potential_missing_packages # {}
    /\ packages_of_required \cap args.packages_in_requirements # {}

(***************************************************************************)
(* Properties of what a run leaves on disk (checked under Spec)            *)
(***************************************************************************)

\* A run of the command is in progress
InRun ==
    /\ args.entry = "packages_inspector"
    /\ pc \in {"required", "conflicting", "inspected", "saved", "cleared"}

\* The decision store holds the mapping the run made for module m
InStoreOf(file, m) ==
    /\ FileRecorder(file).kind = "FileRecorder"
    /\ m \in DOMAIN FileRecorder(file).records
    /\ FileRecorder(file).records[m] = mapped_so_far[m]

InStore(m) == InStoreOf(records_file, m)

\* The context file holds the mapping the run made for module m: as an entry
\* of its mapping, or, for the marker, as an ignored module
InContextFileOf(file, m) ==
    /\ file.exists
    /\ Loads(file)
    /\ IF mapped_so_far[m] = MODULE_IGNORED
       THEN m \in load_context(file).ignored_modules
       ELSE /\ m \in DOMAIN load_context(file).mapping
            /\ load_context(file).mapping[m] = mapped_so_far[m]

InContextFile(m) == InContextFileOf(context_file, m)

\* What C24 says of a run that is not killed: with update_context_file set,
\* each mapping made so far is in the decision store or in the context file;
\* the store is deleted only by the step after the saving step, with the
\* returned context in the file when update_context_file is set
DurableUntilSaved ==
    /\ (InRun /\ args.update_context_file) =>
            \A m \in DOMAIN mapped_so_far : InStore(m) \/ InContextFile(m)
    /\ (records_file.exists /\ ~records_file'.exists) =>
            /\ pc = "saved"
            /\ args.update_context_file =>
                    context_file = SavedContext(results.context)

\* The step kills a run of the command that has update_context_file set
KilledWhilePersisting ==
    /\ InRun
    /\ args.update_context_file
    /\ pc' = "idle"
    /\ exit'.status = "killed"

\* C24, the crash: with update_context_file set, each mapping a run has made
\* is in the decision store or in the context file at every point of the run,
\* and a kill at any point leaves each of them in the store or in the context
\* file.
C24_DurableAfterCrash ==
    [][/\ DurableUntilSaved
       /\ KilledWhilePersisting =>
            \A m \in DOMAIN mapped_so_far :
                InStoreOf(records_file', m) \/ InContextFileOf(context_file', m)
      ]_vars

\* A kill left the decision store of 0 bytes
C24_StoreLost ==
    /\ pc = "idle"
    /\ exit.status = "killed"
    /\ records_file = TornRecordsFile("empty")

\* The step clears the recorder in a run with update_context_file unset
ClearedUnsaved ==
    /\ pc = "saved"
    /\ pc' = "cleared"
    /\ ~args.update_context_file

\* C24, the last clause as stated: in a run with update_context_file unset
\* the store is deleted all the same and none of the mappings the run made
\* is then in the store or in the context file.
C24_DurableOrLost ==
    [][/\ DurableUntilSaved
       /\ ClearedUnsaved =>
            /\ ~records_file'.exists
            /\ \A m \in DOMAIN mapped_so_far : ~InContextFile(m)
      ]_vars

\* C24, the last clause as the code has it: in a run with
\* update_context_file unset the store is deleted all the same and the
\* context file stays as the run loaded it: a mapping the run made is then in
\* the file only if the file held it when the run started.
C24_DurableOrAsLoaded ==
    [][/\ DurableUntilSaved
       /\ ClearedUnsaved =>
            /\ ~records_file'.exists
            /\ context_file' = context_file
            /\ load_context(context_file) = context
            /\ \A m \in DOMAIN mapped_so_far :
                    InContextFile(m) =>
                        /\ m \in DOMAIN context.mapping
                        /\ context.mapping[m] = mapped_so_far[m]
      ]_vars

\* A run with update_context_file set has cleared the store, and a mapping
\* it made at the prompt is in the context file
C24_Witness ==
    /\ InRun
    /\ pc = "cleared"
    /\ args.update_context_file
    /\ ~records_file.exists
    /\ \E m \in DOMAIN mapped_so_far :
            m \notin DOMAIN context.mapping /\ InContextFile(m)

\* A run with update_context_file unset has cleared the store, and a mapping
\* it made is in neither file
C24_WitnessLost ==
    /\ InRun
    /\ pc = "cleared"
    /\ ~args.update_context_file
    /\ ~records_file.exists
    /\ \E m \in DOMAIN mapped_so_far : ~InContextFile(m)

\* A run with update_context_file unset has cleared the store, and a mapping
\* it took from the context file is still there
C24_WitnessKept ==
    /\ InRun
    /\ pc = "cleared"
    /\ ~args.update_context_file
    /\ \E m \in DOMAIN mapped_so_far : InContextFile(m)

(***************************************************************************)
(* Properties of the explicit mapping of a run (checked under Spec)        *)
(***************************************************************************)

\* C25: the explicit mapping a run of the command gives to _inspect has an
\* entry for every module that --mapping, the mapping of the context file or
\* the decision store has one for: the one of --mapping if there is one, else
\* the one of the context file if there is one, else the record.
C25_MappingPrecedence ==
    InRun =>
        /\ DOMAIN module_to_package_mapping =
                DOMAIN mapping_option(args.mapping) \cup DOMAIN context.mapping
                    \cup DOMAIN before.records
        /\ \A m \in DOMAIN module_to_package_mapping :
                module_to_package_mapping[m] =
                    IF m \in DOMAIN mapping_option(args.mapping)
                    THEN mapping_option(args.mapping)[m]
                    ELSE IF m \in DOMAIN context.mapping
                         THEN context.mapping[m]
                         ELSE before.records[m]

\* A run started with a record of a module that differs from the entry of the
\* context file, and no --mapping for it: the entry of the context file is
\* in the explicit mapping
C25_Witness ==
    /\ InRun
    /\ m_ab \in DOMAIN before.records \cap DOMAIN context.mapping
    /\ before.records[m_ab] # context.mapping[m_ab]
    /\ m_ab \notin DOMAIN mapping_option(args.mapping)
    /\ module_to_package_mapping[m_ab] = context.mapping[m_ab]

\* A run started with --mapping for a module that has another entry in the
\* context file and a record: the one of --mapping is in the explicit mapping
C25_WitnessOption ==
    /\ InRun
    /\ m_ab \in DOMAIN before.records \cap DOMAIN context.mapping
    /\ m_ab \in DOMAIN mapping_option(args.mapping)
    /\ mapping_option(args.mapping)[m_ab] # context.mapping[m_ab]
    /\ module_to_package_mapping[m_ab] = mapping_option(args.mapping)[m_ab]

====
